---- MODULE Spec2Model ----
(***************************************************************************)
(* Retro Gaming Hub backend: the library store (package library), the      *)
(* request router (backend/main.go handleRequest) and the per-connection   *)
(* worker loop of the IPC server (package server), and the IPC server with  *)
(* its listener, accept loops and connection registry.                     *)
(*                                                                         *)
(* Strings that the code inspects character by character (paths, file      *)
(* extensions, IDs) are sequences of bytes.  The paths of files are ASCII, *)
(* so a byte index and a rune index coincide; one directory name holds a   *)
(* byte that is not valid UTF-8.  Other strings (platform and category     *)
(* names, message types, error texts) are TLA+ strings.                    *)
(***************************************************************************)
EXTENDS Integers, Sequences, FiniteSets, TLC

(***************************************************************************)
(* Bounds of the model.                                                    *)
(***************************************************************************)
\* lines the clients send and library calls the main goroutine makes
MaxOps == 3
\* the clock stops being read once it shows MaxTime
MaxTime == 6
\* calls of IPCServer.Start and IPCServer.Stop the main goroutine makes
MaxCalls == 3

(***************************************************************************)
(* Program constants.                                                      *)
(***************************************************************************)
\* the multiplier of the rolling hash in generateID
HashMul == 31
\* the number of suffix letters in generateID
HashLetters == 26
\* the longest basename prefix kept by generateID
MaxBase == 8

Nil == "nil"
NoOne == "none"

\* code points: os.PathSeparator and the dot that starts an extension
IsSep(c) == c = 47
IsDot(c) == c = 46

(***************************************************************************)
(* The threads: one worker goroutine per connection, and the main          *)
(* goroutine.                                                              *)
(***************************************************************************)
Conns == {"c1", "c2"}
Main == "main"
Threads == Conns \cup {Main}
\* the goroutines running acceptConnections, one per successful Start
Acceptors == {"a1", "a2"}

(***************************************************************************)
(* strings, path/filepath                                                  *)
(***************************************************************************)
ToLowerChar(c) == IF c >= 65 /\ c <= 90 THEN c + 32 ELSE c
ToUpperChar(c) == IF c >= 97 /\ c <= 122 THEN c - 32 ELSE c

\* Recursive helpers on strings are functions rather than operators, so
\* that their arguments are evaluated once, before the recursion starts.
Str == Seq(Nat)

\* strings.ToLower
ToLowerStr[s \in Str] ==
    IF s = <<>> THEN <<>> ELSE <<ToLowerChar(Head(s))>> \o ToLowerStr[Tail(s)]

ToLower(s) == ToLowerStr[s]

\* strings.ToUpper
ToUpperStr[s \in Str] ==
    IF s = <<>> THEN <<>> ELSE <<ToUpperChar(Head(s))>> \o ToUpperStr[Tail(s)]

ToUpper(s) == ToUpperStr[s]

\* s[from-1:] of Go, 1-based
Suffix(s, from) == SubSeq(s, from, Len(s))

\* strings.HasSuffix
HasSuffix(s, suf) ==
    /\ Len(suf) <= Len(s)
    /\ Suffix(s, Len(s) - Len(suf) + 1) = suf

\* strings.TrimSuffix
TrimSuffix(s, suf) ==
    IF HasSuffix(s, suf) THEN SubSeq(s, 1, Len(s) - Len(suf)) ELSE s

\* filepath.Ext: the suffix beginning at the final dot of the final element
RECURSIVE ExtFrom(_, _)
ExtFrom(path, i) ==
    IF i < 1 \/ IsSep(path[i]) THEN <<>>
    ELSE IF IsDot(path[i]) THEN Suffix(path, i)
    ELSE ExtFrom(path, i - 1)

Ext(path) == ExtFrom(path, Len(path))

\* filepath.Base: trailing separators dropped, then the last element
RECURSIVE StripSlashes(_)
StripSlashes(path) ==
    IF Len(path) > 0 /\ IsSep(path[Len(path)])
    THEN StripSlashes(SubSeq(path, 1, Len(path) - 1))
    ELSE path

RECURSIVE LastElemFrom(_, _)
LastElemFrom(path, i) ==
    IF i < 1 \/ IsSep(path[i]) THEN Suffix(path, i + 1)
    ELSE LastElemFrom(path, i - 1)

Base(path) ==
    IF Len(path) = 0 THEN <<46>>
    ELSE LET p == StripSlashes(path)
         IN IF Len(p) = 0 THEN <<47>> ELSE LastElemFrom(p, Len(p))

(***************************************************************************)
(* platformExtensions                                                      *)
(***************************************************************************)
PlatformExtensions ==
    [NES   |-> << <<46,110,101,115>>, <<46,117,110,102>>, <<46,117,110,105,102>> >>,
     SNES  |-> << <<46,115,102,99>>, <<46,115,109,99>> >>,
     N64   |-> << <<46,110,54,52>>, <<46,122,54,52>>, <<46,118,54,52>> >>,
     GBA   |-> << <<46,103,98,97>> >>,
     GB    |-> << <<46,103,98>>, <<46,103,98,99>> >>,
     ATARI |-> << <<46,97,50,54>>, <<46,98,105,110>> >>]

PlatformNames == DOMAIN PlatformExtensions

SeqRange(s) == {s[i] : i \in 1..Len(s)}

\* Library.detectPlatform: "" when no platform lists the extension.  The
\* map is ranged over in an unspecified order; the extension lists are
\* disjoint, so at most one platform matches.
DetectPlatform(ext) ==
    LET hits == {p \in PlatformNames : ext \in SeqRange(PlatformExtensions[p])}
    IN IF hits = {} THEN "" ELSE CHOOSE p \in hits : TRUE

(***************************************************************************)
(* generateID                                                              *)
(***************************************************************************)
\* The accumulator is a uint32.  It is kept as two 16-bit limbs <<hi, lo>>
\* so that no intermediate value leaves the range of TLC's 32-bit integers:
\* the value is hi * 2^16 + lo.
Limb == 2 ^ 16

\* hash*31 + uint32(c), wrapping modulo 2^32
HashStep[h \in Nat \X Nat, c \in Nat] ==
    LET lo == h[2] * HashMul + c
        hi == h[1] * HashMul + (lo \div Limb)
    IN <<hi % Limb, lo % Limb>>

RECURSIVE HashFrom(_, _, _)
HashFrom(path, i, h) ==
    IF i > Len(path) THEN h
    ELSE HashFrom(path, i + 1, HashStep[h, path[i]])

\* the hash of the whole path, as limbs
PathHash(path) == HashFrom(path, 1, <<0, 0>>)

\* hash % 26 of a hash kept in 16 bits
HashModLow(h) == h[2] % HashLetters

\* hash % 26
HashMod(h) == ((h[1] % HashLetters) * (Limb % HashLetters) + h[2]) % HashLetters

\* base[:8] when len(base) > 8
Truncate(s, n) == IF Len(s) > n THEN SubSeq(s, 1, n) ELSE s

IDBase(path) == Truncate(TrimSuffix(Base(path), Ext(path)), MaxBase)

\* a generateID that hashes the file name instead of the whole path
GenerateIDFromName(path) ==
    Append(ToUpper(IDBase(path)), 65 + HashMod(PathHash(Base(path))))

GenerateID(path) ==
    Append(ToUpper(IDBase(path)), 65 + HashMod(PathHash(path)))

(***************************************************************************)
(* cleanGameTitle                                                          *)
(***************************************************************************)
\* strings.ReplaceAll(s, old, new) for one-character old and new
ReplaceChar[s \in Str, old \in Nat, new \in Nat] ==
    IF s = <<>> THEN <<>>
    ELSE <<IF Head(s) = old THEN new ELSE Head(s)>>
         \o ReplaceChar[Tail(s), old, new]

HasPrefixAt(s, i, pat) ==
    /\ i + Len(pat) - 1 <= Len(s)
    /\ SubSeq(s, i, i + Len(pat) - 1) = pat

\* strings.ReplaceAll(s, pat, ""): non-overlapping occurrences, left to right
RemoveAllFrom[s \in Str, i \in Nat, pat \in Str] ==
    IF i > Len(s) THEN <<>>
    ELSE IF HasPrefixAt(s, i, pat) THEN RemoveAllFrom[s, i + Len(pat), pat]
    ELSE <<s[i]>> \o RemoveAllFrom[s, i + 1, pat]

RemoveAll(s, pat) == RemoveAllFrom[s, 1, pat]

\* the white space of strings.TrimSpace within ASCII
IsSpace(c) == c \in {9, 10, 11, 12, 13, 32}

TrimLeft[s \in Str] ==
    IF Len(s) > 0 /\ IsSpace(s[1]) THEN TrimLeft[Tail(s)] ELSE s

TrimRight[s \in Str] ==
    IF Len(s) > 0 /\ IsSpace(s[Len(s)])
    THEN TrimRight[SubSeq(s, 1, Len(s) - 1)] ELSE s

\* strings.TrimSpace
TrimSpace(s) == TrimRight[TrimLeft[s]]

\* "(USA)", "(Europe)", "(Japan)"
TitlePatterns ==
    << <<40,85,83,65,41>>, <<40,69,117,114,111,112,101,41>>,
       <<40,74,97,112,97,110,41>> >>

RECURSIVE RemovePatterns(_, _)
RemovePatterns(s, k) ==
    IF k > Len(TitlePatterns) THEN s
    ELSE RemovePatterns(RemoveAll(s, TitlePatterns[k]), k + 1)

\* a cleanGameTitle that leaves the hyphens in place
CleanGameTitleKeepingHyphens(filename) ==
    LET t0 == TrimSuffix(filename, Ext(filename))
        t1 == ReplaceChar[t0, 95, 32]
    IN TrimSpace(RemovePatterns(t1, 1))

CleanGameTitle(filename) ==
    LET t0 == TrimSuffix(filename, Ext(filename))
        t1 == ReplaceChar[t0, 95, 32]
        t2 == ReplaceChar[t1, 45, 32]
    IN TrimSpace(RemovePatterns(t2, 1))

(***************************************************************************)
(* The file system the daemon runs on.                                     *)
(***************************************************************************)
\* "/r" and "/r/s": directories
DirR == <<47,114>>
DirRS == <<47,114,47,115>>
\* "/x": does not exist
PathX == <<47,120>>
\* "/r/a.gba", "/r/a.nes", "/r/n.txt", "/r/s/m.GBA": regular files
FileAgba == <<47,114,47,97,46,103,98,97>>
FileAnes == <<47,114,47,97,46,110,101,115>>
FileNtxt == <<47,114,47,110,46,116,120,116>>
FileMGBA == <<47,114,47,115,47,109,46,71,66,65>>

\* "/\xff": a directory whose name is the single byte 0xFF, which is not
\* valid UTF-8 (Linux file names are arbitrary bytes)
DirBad == <<47,255>>

FSDirs == {DirR, DirRS, DirBad}
\* the regular files, in the lexical order filepath.Walk visits them
FSFiles == <<FileAgba, FileAnes, FileNtxt, FileMGBA>>

\* os.Stat
StatExists(path) == path \in FSDirs \/ path \in SeqRange(FSFiles)
StatIsDir(path) == path \in FSDirs

Under(root, f) ==
    /\ Len(f) > Len(root) + 1
    /\ SubSeq(f, 1, Len(root)) = root
    /\ IsSep(f[Len(root) + 1])

\* filepath.Walk(root, fn), reduced to the visits whose callback goes past
\* "err != nil || info.IsDir()": the regular files under root in lexical
\* order; root itself when it is a regular file; none when root is missing.
WalkFiles(root) ==
    IF root \in SeqRange(FSFiles) THEN <<root>>
    ELSE IF root \in FSDirs THEN SelectSeq(FSFiles, LAMBDA f : Under(root, f))
    ELSE <<>>

\* the visits of "for _, scanPath := range lib.ScanPaths", in order
RECURSIVE Visits(_)
Visits(paths) ==
    IF paths = <<>> THEN <<>>
    ELSE WalkFiles(Head(paths)) \o Visits(Tail(paths))

(***************************************************************************)
(* GameInfo, Library and its JSON snapshot                                 *)
(***************************************************************************)
Uncategorized == "Uncategorized"

\* the GameInfo literal of Scan; the fields it leaves out are zero values
NewGame(path, platform) ==
    [ID          |-> GenerateID(path),
     Title       |-> CleanGameTitle(Base(path)),
     Description |-> "",
     Platform    |-> platform,
     Path        |-> path,
     CoverPath   |-> "",
     LastPlayed  |-> 0,
     PlayCount   |-> 0,
     Favorite    |-> FALSE,
     Category    |-> Uncategorized]

\* make(map[string]int)
EmptyMap == [k \in {} |-> 0]

\* a count that is set when the key is new and never raised afterwards
IncrOnlyNew(m, k) ==
    IF k \in DOMAIN m THEN m ELSE m @@ (k :> 1)

\* m[k]++
Incr(m, k) ==
    IF k \in DOMAIN m THEN [m EXCEPT ![k] = @ + 1] ELSE m @@ (k :> 1)

\* U+FFFD, the Unicode replacement character, in UTF-8
ReplacementChar == <<239,191,189>>

\* A Go string as it comes back from encoding/json: Marshal coerces a
\* string to valid UTF-8, replacing every invalid byte by U+FFFD, and
\* Unmarshal returns that text.  The only bytes above 127 in the model are
\* lone 0xFF bytes (invalid) and the encoding of U+FFFD itself (valid).
JSONString[s \in Str] ==
    IF s = <<>> THEN <<>>
    ELSE IF Head(s) < 128 THEN <<Head(s)>> \o JSONString[Tail(s)]
    ELSE IF Len(s) >= 3 /\ SubSeq(s, 1, 3) = ReplacementChar
         THEN ReplacementChar \o JSONString[SubSeq(s, 4, Len(s))]
         ELSE ReplacementChar \o JSONString[Tail(s)]

\* a GameInfo as the JSON document holds it
MarshalGame(g) ==
    [g EXCEPT !.ID = JSONString[@], !.Title = JSONString[@],
              !.Path = JSONString[@]]

\* json.MarshalIndent(lib): the exported fields under their JSON names
Marshal(games, scanPaths, categories, platforms, lastScan) ==
    [games      |-> [i \in 1..Len(games) |-> MarshalGame(games[i])],
     scan_paths |-> [i \in 1..Len(scanPaths) |-> JSONString[scanPaths[i]]],
     categories |-> categories,
     platforms  |-> platforms,
     last_scan  |-> lastScan]

EmptySnapshot == Marshal(<<>>, <<>>, EmptyMap, EmptyMap, 0)

\* json.Unmarshal into a map keeps the entries the document does not name
MergeMap(old, new) ==
    [k \in DOMAIN old \cup DOMAIN new |-> IF k \in DOMAIN new THEN new[k] ELSE old[k]]

(***************************************************************************)
(* Requests and responses (server.Request, server.Response)                *)
(***************************************************************************)
\* game IDs a client may name: "AZ", "MX" and "NOPE"
IdAZ == <<65,90>>
IdMX == <<77,88>>
IdNOPE == <<78,79,80,69>>

MsgTypeListGames == "list_games"
MsgTypeGetGame == "get_game"
MsgTypeGetFavorites == "get_favorites"
MsgTypeToggleFavorite == "toggle_favorite"
MsgTypeGetRecent == "get_recent"
MsgTypeScan == "scan"
MsgTypeAddScanPath == "add_scan_path"
MsgTypeStatus == "status"
MsgTypeError == "error"
MsgTypeSuccess == "success"

\* a decoded request line: type, id and the payload fields its type reads
Request(type, id, arg, platform, category) ==
    [type |-> type, id |-> id, arg |-> arg, platform |-> platform,
     category |-> category, limit |-> 0]

NoRequest == Request("", "", <<>>, "", "")

\* the request lines the clients send
ClientRequests ==
    {Request(MsgTypeListGames, "r1", <<>>, "", ""),
     Request(MsgTypeListGames, "r1", <<>>, "GBA", ""),
     Request(MsgTypeListGames, "", <<>>, "", "Action"),
     Request(MsgTypeGetGame, "r1", IdNOPE, "", ""),
     Request(MsgTypeGetGame, "r1", IdMX, "", ""),
     Request(MsgTypeGetFavorites, "r1", <<>>, "", ""),
     Request(MsgTypeToggleFavorite, "r1", IdMX, "", ""),
     Request(MsgTypeToggleFavorite, "r1", IdAZ, "", ""),
     Request(MsgTypeToggleFavorite, "", IdNOPE, "", ""),
     Request(MsgTypeScan, "r1", <<>>, "", ""),
     Request(MsgTypeStatus, "", <<>>, "", ""),
     Request(MsgTypeGetRecent, "r1", <<>>, "", "")}

\* the library calls the main goroutine makes: AddScanPath(path) and
\* GetRecentlyPlayed(limit)
ApiCall(type, path, limit) ==
    [type |-> type, id |-> "", arg |-> path, platform |-> "",
     category |-> "", limit |-> limit]

MainCalls ==
    {ApiCall(MsgTypeAddScanPath, DirR, 0),
     ApiCall(MsgTypeAddScanPath, DirRS, 0),
     ApiCall(MsgTypeAddScanPath, PathX, 0),
     ApiCall(MsgTypeAddScanPath, FileAnes, 0),
     ApiCall(MsgTypeGetRecent, <<>>, 0),
     ApiCall(MsgTypeGetRecent, <<>>, 1)}

\* Response.Data.  alias > 0 when the value shares the backing array of
\* lib.Games: games[k] is element alias + k - 1 of that array.  enc counts
\* the records json.Marshal has encoded already.
Data(kind, games, n, alias) ==
    [kind |-> kind, games |-> games, n |-> n, alias |-> alias, enc |-> 0,
     status |-> "", version |-> ""]

DataNone == Data("none", <<>>, 0, 0)
DataStatus(version) ==
    [kind |-> "status", games |-> <<>>, n |-> 0, alias |-> 0, enc |-> 0,
     status |-> "ready", version |-> version]

Response(type, id, success, data, error) ==
    [type |-> type, id |-> id, success |-> success, data |-> data,
     error |-> error]

NoResponse == Response("", "", FALSE, DataNone, "")

ErrWrite == "write failed"
ErrNotExist == "file does not exist"
ErrStat == "no such file or directory"

\* os.IsNotExist(err), errors.Is(err, os.ErrNotExist): the error says that
\* a file or directory does not exist
IsNotExist(err) == err \in {ErrStat, ErrNotExist}

(***************************************************************************)
(* State                                                                   *)
(***************************************************************************)
VARIABLES
    \* Library
    Games, ScanPaths, Categories, Platforms, LastScan,
    \* Library.mu: the goroutine holding it exclusively, those sharing it
    muWriter, muReaders,
    \* the snapshot file at configPath
    disk,
    \* time.Now()
    now,
    \* IPCServer.running, and which connections are open
    running, connOpen,
    \* per goroutine: position, request being served, value returned by the
    \* handler or the library call
    pc, req, ret,
    \* per goroutine: the next visit of a running Scan
    scanK,
    \* per connection: non-blank lines read that no line has been written for
    owed,
    \* lines read from the clients and calls made by the main goroutine
    nops,
    \* IPCServer.listener, IPCServer.clients, the holder of IPCServer.mu
    listener, clients, smu,
    \* per accept loop: its position, the listener it calls Accept on and
    \* the connection Accept returned
    apc, alis, aconn,
    \* per connection: the client's end of it
    peer,
    \* per connection: the lines read from it and the lines written to it
    rlog, wlog,
    \* calls of Start and Stop made by the main goroutine
    ncalls,
    \* IPCServer.handler
    handler

libVars == <<Games, ScanPaths, Categories, Platforms, LastScan>>
muVars == <<muWriter, muReaders>>
\* The line logs and the count of Start and Stop calls are kept by the
\* specification of the IPC server (SrvSpec); in the other specifications
\* they keep the values NewIPCServer leaves.
regVars == <<listener, clients, smu>>
accVars == <<apc, alis, aconn>>
logVars == <<rlog, wlog>>
ipcVars == <<regVars, accVars, peer, logVars, ncalls, handler>>
srvVars == <<running, connOpen, ipcVars>>
cntVars == <<owed, nops>>
vars == <<Games, ScanPaths, Categories, Platforms, LastScan, muWriter,
          muReaders, disk, now, running, connOpen, pc, req, ret, scanK,
          owed, nops, listener, clients, smu, apc, alis, aconn, peer,
          rlog, wlog, ncalls, handler>>

\* the snapshot file: absent, or holding a JSON document that parses
\* (valid) or does not
DiskMissing == [exists |-> FALSE, valid |-> FALSE, snap |-> EmptySnapshot]
DiskFile(snap) == [exists |-> TRUE, valid |-> TRUE, snap |-> snap]
DiskTorn == [exists |-> TRUE, valid |-> FALSE, snap |-> EmptySnapshot]

\* a snapshot left by an earlier run: two games found under "/r", the
\* second one played, marked favorite and filed under "Action"
OldGames ==
    << [NewGame(FileAnes, "NES") EXCEPT !.Favorite = FALSE],
       [NewGame(FileMGBA, "GBA") EXCEPT !.LastPlayed = 2, !.PlayCount = 3,
                                        !.Favorite = TRUE,
                                        !.Category = "Action"] >>

OldSnapshot ==
    Marshal(OldGames, <<DirR>>, ("Action" :> 1) @@ (Uncategorized :> 1),
            ("GBA" :> 1) @@ ("NES" :> 1), 1)

InitialDisks == {DiskMissing, DiskFile(OldSnapshot)}

\* the clock when the daemon starts
StartTime == 3

\* s.listener: nil, or the listener of the id-th successful net.Listen,
\* which holds the port until it is closed
NilListener == [id |-> 0, open |-> FALSE]

\* main: ipcServer.SetHandler(...) installs the closure over handleRequest
HandleRequest == "handleRequest"
SetHandler == handler = HandleRequest

\* NewIPCServer: no listener, an empty registry, nobody connected; it
\* leaves s.handler nil
NewIPCServer ==
    /\ listener = NilListener
    /\ clients = {}
    /\ smu = NoOne
    /\ apc = [a \in Acceptors |-> "none"]
    /\ alis = [a \in Acceptors |-> 0]
    /\ aconn = [a \in Acceptors |-> NoOne]
    /\ peer = [c \in Conns |-> "new"]
    /\ rlog = [c \in Conns |-> <<>>]
    /\ wlog = [c \in Conns |-> <<>>]
    /\ ncalls = 0

\* ipcServer.Start() has returned, the clients have connected, and the
\* accept loop has registered them and started their workers; it waits in
\* s.listener.Accept() for a connection
Serving ==
    /\ listener = [id |-> 1, open |-> TRUE]
    /\ clients = Conns
    /\ smu = NoOne
    /\ apc = [a \in Acceptors |-> IF a = "a1" THEN "accept" ELSE "none"]
    /\ alis = [a \in Acceptors |-> IF a = "a1" THEN 1 ELSE 0]
    /\ aconn = [a \in Acceptors |-> NoOne]
    /\ peer = [c \in Conns |-> "connected"]
    /\ rlog = [c \in Conns |-> <<>>]
    /\ wlog = [c \in Conns |-> <<>>]
    /\ ncalls = 0

(***************************************************************************)
(* sync.RWMutex                                                            *)
(***************************************************************************)
\* a Lock() that does not wait for the readers to leave
CanLockIgnoringReaders == muWriter = NoOne

\* an RLock() that does not wait for the writer to leave
CanRLockIgnoringWriter == TRUE

\* Lock() returns once nobody holds the mutex in either mode
CanLock == muWriter = NoOne /\ muReaders = {}
\* RLock() returns once nobody holds the mutex exclusively
CanRLock == muWriter = NoOne

Lock(t) == CanLock /\ muWriter' = t /\ UNCHANGED muReaders
Unlock(t) == muWriter' = NoOne /\ UNCHANGED muReaders
RLock(t) == CanRLock /\ muReaders' = muReaders \cup {t} /\ UNCHANGED muWriter
RUnlock(t) == muReaders' = muReaders \ {t} /\ UNCHANGED muWriter

(***************************************************************************)
(* NewLibrary, Load                                                        *)
(***************************************************************************)
\* Library.Load into the freshly made library of NewLibrary: a missing file
\* leaves it empty; an unparsable one leaves it as it was
LoadedSnapshot(d) ==
    IF d.exists /\ d.valid
    THEN [d.snap EXCEPT !.categories = MergeMap(EmptyMap, @),
                        !.platforms = MergeMap(EmptyMap, @)]
    ELSE EmptySnapshot

Init ==
    /\ disk \in InitialDisks
    /\ Games = LoadedSnapshot(disk).games
    /\ ScanPaths = LoadedSnapshot(disk).scan_paths
    /\ Categories = LoadedSnapshot(disk).categories
    /\ Platforms = LoadedSnapshot(disk).platforms
    /\ LastScan = LoadedSnapshot(disk).last_scan
    /\ muWriter = NoOne
    /\ muReaders = {}
    /\ now = StartTime
    /\ running = TRUE
    /\ connOpen = [c \in Conns |-> TRUE]
    /\ Serving
    /\ SetHandler
    /\ pc = [t \in Threads |-> IF t = Main THEN "run" ELSE "loop"]
    /\ req = [t \in Threads |-> NoRequest]
    /\ ret = [t \in Threads |-> NoResponse]
    /\ scanK = [t \in Threads |-> 1]
    /\ owed = [c \in Conns |-> 0]
    /\ nops = 0

(***************************************************************************)
(* handleRequest: the cases that do not touch the library                  *)
(***************************************************************************)
RoutedTypes ==
    {MsgTypeListGames, MsgTypeGetGame, MsgTypeGetFavorites,
     MsgTypeToggleFavorite, MsgTypeScan, MsgTypeStatus}

Returns(t, resp, next) ==
    /\ ret' = [ret EXCEPT ![t] = resp]
    /\ pc' = [pc EXCEPT ![t] = next]

\* a status case that waits until the store can be read
HandleStatusUnderRLock(c) ==
    /\ pc[c] = "handle"
    /\ req[c].type = MsgTypeStatus
    /\ CanRLock
    /\ Returns(c, Response(MsgTypeStatus, req[c].id, TRUE,
                           DataStatus("1.0.0"), ""), "send")
    /\ UNCHANGED <<libVars, muVars, disk, now, srvVars, req, scanK,
                   cntVars>>

HandleStatus(c) ==
    /\ pc[c] = "handle"
    /\ req[c].type = MsgTypeStatus
    /\ Returns(c, Response(MsgTypeStatus, req[c].id, TRUE,
                           DataStatus("1.0.0"), ""), "send")
    /\ UNCHANGED <<libVars, muVars, disk, now, srvVars, req, scanK,
                   cntVars>>

\* a default case that does not echo the request's id
HandleUnknownDroppingID(c) ==
    /\ pc[c] = "handle"
    /\ req[c].type \notin RoutedTypes
    /\ Returns(c, Response(MsgTypeError, "", FALSE, DataNone,
                           "Unknown message type"), "send")
    /\ UNCHANGED <<libVars, muVars, disk, now, srvVars, req, scanK,
                   cntVars>>

HandleUnknown(c) ==
    /\ pc[c] = "handle"
    /\ req[c].type \notin RoutedTypes
    /\ Returns(c, Response(MsgTypeError, req[c].id, FALSE, DataNone,
                           "Unknown message type"), "send")
    /\ UNCHANGED <<libVars, muVars, disk, now, srvVars, req, scanK,
                   cntVars>>

(***************************************************************************)
(* Library.Save, Library.saveUnlocked                                      *)
(***************************************************************************)
\* os.WriteFile either replaces the file by the document, or fails: before
\* touching the file, or after truncating it
WriteOutcomes(doc) ==
    {[disk |-> DiskFile(doc), err |-> Nil],
     [disk |-> disk, err |-> ErrWrite],
     [disk |-> DiskTorn, err |-> ErrWrite]}

\* saveUnlocked on the given library state
SaveUnlocked(games, scanPaths, categories, platforms, lastScan) ==
    WriteOutcomes(Marshal(games, scanPaths, categories, platforms, lastScan))

\* the response of handleRequest to a scan request once Scan has returned:
\* len(lib.Games) is read then, without the lock
ScanResponse(c, err) ==
    IF err # Nil
    THEN Response(MsgTypeError, req[c].id, FALSE, DataNone, err)
    ELSE Response(MsgTypeSuccess, req[c].id, TRUE,
                  Data("found", <<>>, Len(Games), 0), "")

\* Save: lib.mu.Lock()
SaveLock(t) ==
    /\ pc[t] = "save_lock"
    /\ Lock(t)
    /\ pc' = [pc EXCEPT ![t] = "save_body"]
    /\ UNCHANGED <<libVars, disk, now, srvVars, req, ret, scanK, cntVars>>

\* Save: saveUnlocked and the deferred Unlock; Save returns the error
SaveBody(t) ==
    /\ pc[t] = "save_body"
    /\ \E o \in SaveUnlocked(Games, ScanPaths, Categories, Platforms, LastScan) :
          /\ disk' = o.disk
          /\ Returns(t, Response("save", "", o.err = Nil, DataNone, o.err),
                     "save_ret")
    /\ Unlock(t)
    /\ UNCHANGED <<libVars, now, srvVars, req, scanK, cntVars>>

\* the caller of Save goes on with the error Save returned: main drops it
\* and returns (shutdown); Scan returns it to handleRequest, which builds
\* the response to the scan request
SaveReturn(t) ==
    /\ pc[t] = "save_ret"
    /\ IF t = Main
       THEN /\ pc' = [pc EXCEPT ![t] = "exited"]
            /\ UNCHANGED ret
       ELSE Returns(t, ScanResponse(t, ret[t].error), "send")
    /\ UNCHANGED <<libVars, muVars, disk, now, srvVars, req, scanK, cntVars>>

(***************************************************************************)
(* Library.Scan                                                            *)
(***************************************************************************)
\* lib.mu.Lock()
ScanLock(c) ==
    /\ pc[c] = "handle"
    /\ req[c].type = MsgTypeScan
    /\ now < MaxTime
    /\ Lock(c)
    /\ pc' = [pc EXCEPT ![c] = "scan_reset"]
    /\ UNCHANGED <<libVars, disk, now, srvVars, req, ret, scanK, cntVars>>

\* a value that shared the backing array of lib.Games keeps the old array
Detached(resp) == [resp EXCEPT !.data.alias = 0, !.data.enc = 0]

\* a Scan that clears the count mappings but appends to the old records
ScanResetKeepingGames(c) ==
    /\ pc[c] = "scan_reset"
    /\ Categories' = EmptyMap
    /\ Platforms' = EmptyMap
    /\ scanK' = [scanK EXCEPT ![c] = 1]
    /\ pc' = [pc EXCEPT ![c] = "scan_walk"]
    /\ UNCHANGED <<Games, ScanPaths, LastScan, muVars, disk, now, srvVars, req,
                   ret, cntVars>>

\* the three make(...) assignments
ScanReset(c) ==
    /\ pc[c] = "scan_reset"
    /\ Games' = <<>>
    /\ Categories' = EmptyMap
    /\ Platforms' = EmptyMap
    /\ scanK' = [scanK EXCEPT ![c] = 1]
    /\ ret' = [t \in Threads |-> Detached(ret[t])]
    /\ pc' = [pc EXCEPT ![c] = "scan_walk"]
    /\ UNCHANGED <<ScanPaths, LastScan, muVars, disk, now, srvVars, req, cntVars>>

\* the extension as spelled in the file name
ExactExt(path) == Ext(path)

\* strings.ToLower(filepath.Ext(path))
LowerExt(path) == ToLower(Ext(path))

\* the walk function on a regular file: the store it leaves
VisitFile(games, platforms, categories, path) ==
    LET platform == DetectPlatform(LowerExt(path))
        game == NewGame(path, platform)
    IN IF platform # ""
       THEN [games      |-> Append(games, game),
             platforms  |-> Incr(platforms, platform),
             categories |-> Incr(categories, game.Category)]
       ELSE [games |-> games, platforms |-> platforms,
             categories |-> categories]

\* one call of the walk function on a regular file
ScanVisit(c) ==
    /\ pc[c] = "scan_walk"
    /\ scanK[c] <= Len(Visits(ScanPaths))
    /\ \E path \in {Visits(ScanPaths)[scanK[c]]} :
          \E after \in {VisitFile(Games, Platforms, Categories, path)} :
             /\ Games' = after.games
             /\ Platforms' = after.platforms
             /\ Categories' = after.categories
    /\ scanK' = [scanK EXCEPT ![c] = @ + 1]
    /\ UNCHANGED <<ScanPaths, LastScan, muVars, disk, now, srvVars, pc, req,
                   ret, cntVars>>

\* lib.LastScan = time.Now(), then the call of lib.Save()
ScanStamp(c) ==
    /\ pc[c] = "scan_walk"
    /\ scanK[c] > Len(Visits(ScanPaths))
    /\ LastScan' = now
    /\ now' = now + 1
    /\ pc' = [pc EXCEPT ![c] = "save_lock"]
    /\ UNCHANGED <<Games, ScanPaths, Categories, Platforms, muVars, disk,
                   srvVars, req, ret, scanK, cntVars>>

(***************************************************************************)
(* Library.ToggleFavorite                                                  *)
(***************************************************************************)
\* the last index whose record has the ID, 0 when there is none
LastIndex(games, id) ==
    LET hits == {i \in 1..Len(games) : games[i].ID = id}
    IN IF hits = {} THEN 0 ELSE CHOOSE i \in hits : \A j \in hits : j <= i

\* the first index whose record has the ID, 0 when there is none
FirstIndex(games, id) ==
    LET hits == {i \in 1..Len(games) : games[i].ID = id}
    IN IF hits = {} THEN 0 ELSE CHOOSE i \in hits : \A j \in hits : i <= j

\* lib.Games[i].Favorite = true
SetFavorite(games, i) == [games EXCEPT ![i].Favorite = TRUE]

\* lib.Games[i].Favorite = false
ClearFavorite(games, i) == [games EXCEPT ![i].Favorite = FALSE]

\* a toggle that also counts a play of the record
FlipAndCountPlay(games, i) ==
    [games EXCEPT ![i].Favorite = ~@, ![i].PlayCount = @ + 1]

\* lib.Games[i].Favorite = !lib.Games[i].Favorite
FlipFavorite(games, i) == [games EXCEPT ![i].Favorite = ~@]

\* the write to lib.Games[i], seen through a value that shares the array,
\* unless json.Marshal has encoded the record already
AliasWrite(resp, i) ==
    LET k == i - resp.data.alias + 1
    IN IF resp.data.alias > 0 /\ k > resp.data.enc
          /\ k <= Len(resp.data.games)
       THEN [resp EXCEPT !.data.games[k].Favorite = ~@]
       ELSE resp

\* a handler that answers success whatever ToggleFavorite returned
ToggleResponseDroppingError(c, err) ==
    Response(MsgTypeSuccess, req[c].id, TRUE, DataNone, "")

\* the response of handleRequest to a toggle_favorite request
ToggleResponse(c, err) ==
    IF err # Nil
    THEN Response(MsgTypeError, req[c].id, FALSE, DataNone, err)
    ELSE Response(MsgTypeSuccess, req[c].id, TRUE, DataNone, "")

\* lib.mu.Lock()
ToggleLock(c) ==
    /\ pc[c] = "handle"
    /\ req[c].type = MsgTypeToggleFavorite
    /\ Lock(c)
    /\ pc' = [pc EXCEPT ![c] = "toggle_body"]
    /\ UNCHANGED <<libVars, disk, now, srvVars, req, ret, scanK, cntVars>>

\* the loop over lib.Games, saveUnlocked when the ID was found, the deferred
\* Unlock and the return to handleRequest
ToggleBody(c) ==
    /\ pc[c] = "toggle_body"
    /\ LET i == FirstIndex(Games, req[c].arg)
           flipped == FlipFavorite(Games, i)
       IN IF i = 0
          THEN /\ UNCHANGED <<Games, disk>>
               /\ ret' = [ret EXCEPT ![c] = ToggleResponse(c, Nil)]
          ELSE /\ Games' = flipped
               /\ \E o \in SaveUnlocked(flipped, ScanPaths, Categories,
                                        Platforms, LastScan) :
                     /\ disk' = o.disk
                     /\ ret' = [t \in Threads |->
                                  IF t = c THEN ToggleResponse(c, o.err)
                                  ELSE AliasWrite(ret[t], i)]
    /\ Unlock(c)
    /\ pc' = [pc EXCEPT ![c] = "send"]
    /\ UNCHANGED <<ScanPaths, Categories, Platforms, LastScan, now, srvVars,
                   req, scanK, cntVars>>

(***************************************************************************)
(* Library.GetGames, GetGameByID, GetFavorites, GetRecentlyPlayed          *)
(***************************************************************************)
ReadTypes == {MsgTypeListGames, MsgTypeGetGame, MsgTypeGetFavorites}

\* lib.mu.RLock()
ReadLock(t) ==
    /\ \/ pc[t] = "handle" /\ req[t].type \in ReadTypes
       \/ pc[t] = "call" /\ req[t].type = MsgTypeGetRecent
    /\ RLock(t)
    /\ pc' = [pc EXCEPT ![t] = "read_body"]
    /\ UNCHANGED <<libVars, disk, now, srvVars, req, ret, scanK, cntVars>>

\* a GetGames that filters by platform only
GetGamesByPlatform(games, platform, category) ==
    IF platform = "" /\ category = "" THEN games
    ELSE SelectSeq(games, LAMBDA g : platform = "" \/ g.Platform = platform)

GetGames(games, platform, category) ==
    IF platform = "" /\ category = "" THEN games
    ELSE SelectSeq(games, LAMBDA g :
            /\ platform = "" \/ g.Platform = platform
            /\ category = "" \/ g.Category = category)

\* a GetFavorites that does not look at the flag
GetFavoritesAll(games) == games

GetFavorites(games) == SelectSeq(games, LAMBDA g : g.Favorite)

\* the inner loop of the bubble sort: j runs from 1 to last
RECURSIVE BubblePass(_, _, _)
BubblePass(games, j, last) ==
    IF j > last THEN games
    ELSE IF games[j].LastPlayed < games[j + 1].LastPlayed
         THEN BubblePass([games EXCEPT ![j] = games[j + 1], ![j + 1] = games[j]],
                         j + 1, last)
         ELSE BubblePass(games, j + 1, last)

\* the outer loop: pass i (0-based) compares up to index len-i-1
RECURSIVE BubbleSort(_, _)
BubbleSort(games, i) ==
    IF i >= Len(games) - 1 THEN games
    ELSE BubbleSort(BubblePass(games, 1, Len(games) - i - 1), i + 1)

\* a GetRecentlyPlayed without the sort
GetRecentlyPlayedUnsorted(games, limit) ==
    IF limit > 0 /\ limit < Len(games) THEN SubSeq(games, 1, limit)
    ELSE games

GetRecentlyPlayed(games, limit) ==
    LET sorted == BubbleSort(games, 0)
    IN IF limit > 0 /\ limit < Len(sorted) THEN SubSeq(sorted, 1, limit)
       ELSE sorted

\* GetGames, the deferred RUnlock, and the list_games response
GetGamesBody(c) ==
    /\ pc[c] = "read_body"
    /\ req[c].type = MsgTypeListGames
    /\ LET unfiltered == req[c].platform = "" /\ req[c].category = ""
           games == GetGames(Games, req[c].platform, req[c].category)
       IN Returns(c, Response(MsgTypeSuccess, req[c].id, TRUE,
                              Data("games", games, 0,
                                   IF unfiltered THEN 1 ELSE 0), ""), "send")
    /\ RUnlock(c)
    /\ UNCHANGED <<libVars, disk, now, srvVars, req, scanK, cntVars>>

\* GetGameByID, the deferred RUnlock, and the get_game response
GetGameBody(c) ==
    /\ pc[c] = "read_body"
    /\ req[c].type = MsgTypeGetGame
    /\ LET i == FirstIndex(Games, req[c].arg)
       IN IF i = 0
          THEN Returns(c, Response(MsgTypeError, req[c].id, FALSE, DataNone,
                                   "Game not found"), "send")
          ELSE Returns(c, Response(MsgTypeSuccess, req[c].id, TRUE,
                                   Data("game", <<Games[i]>>, 0, i), ""), "send")
    /\ RUnlock(c)
    /\ UNCHANGED <<libVars, disk, now, srvVars, req, scanK, cntVars>>

\* GetFavorites, the deferred RUnlock, and the get_favorites response
GetFavoritesBody(c) ==
    /\ pc[c] = "read_body"
    /\ req[c].type = MsgTypeGetFavorites
    /\ Returns(c, Response(MsgTypeSuccess, req[c].id, TRUE,
                           Data("games", GetFavorites(Games), 0, 0), ""), "send")
    /\ RUnlock(c)
    /\ UNCHANGED <<libVars, disk, now, srvVars, req, scanK, cntVars>>

\* GetRecentlyPlayed and the deferred RUnlock
GetRecentBody(t) ==
    /\ pc[t] = "read_body"
    /\ req[t].type = MsgTypeGetRecent
    /\ Returns(t, Response("recent", "", TRUE,
                           Data("games", GetRecentlyPlayed(Games, req[t].limit),
                                0, 0), ""), "returned")
    /\ RUnlock(t)
    /\ UNCHANGED <<libVars, disk, now, srvVars, req, scanK, cntVars>>

(***************************************************************************)
(* Library.AddScanPath                                                     *)
(***************************************************************************)
\* an AddScanPath that goes on without taking the lock
AddWithoutLock(t) ==
    /\ pc[t] = "call"
    /\ req[t].type = MsgTypeAddScanPath
    /\ pc' = [pc EXCEPT ![t] = "add_body"]
    /\ UNCHANGED <<libVars, muVars, disk, now, srvVars, req, ret, scanK,
                   cntVars>>

\* lib.mu.Lock()
AddLock(t) ==
    /\ pc[t] = "call"
    /\ req[t].type = MsgTypeAddScanPath
    /\ Lock(t)
    /\ pc' = [pc EXCEPT ![t] = "add_body"]
    /\ UNCHANGED <<libVars, disk, now, srvVars, req, ret, scanK, cntVars>>

\* the error AddScanPath returns
AddScanPathErr(path) ==
    IF ~StatExists(path) THEN ErrStat
    ELSE IF ~StatIsDir(path) THEN ErrNotExist
    ELSE Nil

\* os.Stat and the loop over lib.ScanPaths: the error of Stat,
\* os.ErrNotExist for a path that is no directory, or nil when the list
\* holds the path, each with the deferred Unlock; otherwise on to the
\* append
AddBody(t) ==
    /\ pc[t] = "add_body"
    /\ IF AddScanPathErr(req[t].arg) # Nil
          \/ req[t].arg \in SeqRange(ScanPaths)
       THEN /\ Returns(t, Response("add", "",
                                   AddScanPathErr(req[t].arg) = Nil, DataNone,
                                   AddScanPathErr(req[t].arg)), "returned")
            /\ Unlock(t)
       ELSE /\ pc' = [pc EXCEPT ![t] = "add_append"]
            /\ UNCHANGED <<ret, muVars>>
    /\ UNCHANGED <<libVars, disk, now, srvVars, req, scanK, cntVars>>

\* lib.ScanPaths = append(lib.ScanPaths, path), return nil and the
\* deferred Unlock
AddAppend(t) ==
    /\ pc[t] = "add_append"
    /\ ScanPaths' = Append(ScanPaths, req[t].arg)
    /\ Returns(t, Response("add", "", TRUE, DataNone, Nil), "returned")
    /\ Unlock(t)
    /\ UNCHANGED <<Games, Categories, Platforms, LastScan, disk, now, srvVars,
                   req, scanK, cntVars>>

(***************************************************************************)
(* The IPC server: Start and Stop called by the main goroutine in any      *)
(* order, the accept loops, the registry of connections under s.mu, and    *)
(* the worker of each connection with the lines it reads and writes.       *)
(***************************************************************************)
\* the lines the clients send, their hang-ups and the calls of Start and
\* Stop are bounded together as well: another one is allowed while they
\* number MaxOps at most
WithinBudget == nops + ncalls <= MaxOps

\* the requests the clients send
SrvRequests ==
    {Request(MsgTypeStatus, "s1", <<>>, "", ""),
     Request("launch_game", "u1", <<>>, "", ""),
     Request(MsgTypeGetGame, "g1", IdMX, "", ""),
     Request(MsgTypeScan, "x1", <<>>, "", "")}

\* a line as the worker reads it: blank, not a JSON request, or a request
Line(kind, r) == [kind |-> kind, type |-> r.type, id |-> r.id]

ErrListen == "failed to start server"

\* a snapshot left by an earlier run that scanned "/r/s"
SrvSnapshot ==
    Marshal(<<NewGame(FileMGBA, "GBA")>>, <<DirRS>>, (Uncategorized :> 1),
            ("GBA" :> 1), 1)

\* NewLibrary has loaded the snapshot and NewIPCServer has made the server;
\* nobody is connected
SrvBoot ==
    /\ disk = DiskFile(SrvSnapshot)
    /\ Games = LoadedSnapshot(disk).games
    /\ ScanPaths = LoadedSnapshot(disk).scan_paths
    /\ Categories = LoadedSnapshot(disk).categories
    /\ Platforms = LoadedSnapshot(disk).platforms
    /\ LastScan = LoadedSnapshot(disk).last_scan
    /\ muWriter = NoOne
    /\ muReaders = {}
    /\ now = StartTime
    /\ running = FALSE
    /\ connOpen = [c \in Conns |-> FALSE]
    /\ NewIPCServer
    /\ pc = [t \in Threads |-> IF t = Main THEN "srv" ELSE "none"]
    /\ req = [t \in Threads |-> NoRequest]
    /\ ret = [t \in Threads |-> NoResponse]
    /\ scanK = [t \in Threads |-> 1]
    /\ owed = [c \in Conns |-> 0]
    /\ nops = 0

\* the daemon: main has installed its handler
SrvInit == SrvBoot /\ SetHandler

\* a server as NewIPCServer returns it, or with the handler of main
HandlerInit == SrvBoot /\ handler \in {Nil, HandleRequest}

\* a Start that forgets the listener it had when net.Listen fails
StartFailsDroppingListener ==
    /\ pc[Main] = "srv"
    /\ ncalls < MaxCalls
    /\ WithinBudget
    /\ ncalls' = ncalls + 1
    /\ UNCHANGED handler
    /\ listener' = NilListener
    /\ ret' = [ret EXCEPT ![Main] =
                  Response("start", "", FALSE, DataNone, ErrListen)]
    /\ UNCHANGED <<libVars, muVars, disk, now, running, connOpen, clients,
                   smu, accVars, peer, logVars, pc, req, scanK, cntVars>>

\* Start: net.Listen fails, the port being bound by the listener of an
\* earlier Start or by another process; the error is returned
StartFails ==
    /\ pc[Main] = "srv"
    /\ ncalls < MaxCalls
    /\ WithinBudget
    /\ ncalls' = ncalls + 1
    /\ UNCHANGED handler
    /\ ret' = [ret EXCEPT ![Main] =
                  Response("start", "", FALSE, DataNone, ErrListen)]
    /\ UNCHANGED <<libVars, muVars, disk, now, running, connOpen, regVars,
                   accVars, peer, logVars, pc, req, scanK, cntVars>>

\* Start: net.Listen binds the port, which no listener of this server
\* holds; s.listener = listener
StartListen ==
    /\ pc[Main] = "srv"
    /\ ncalls < MaxCalls
    /\ WithinBudget
    /\ ~listener.open
    /\ \E a \in Acceptors : apc[a] = "none"
    /\ ncalls' = ncalls + 1
    /\ UNCHANGED handler
    /\ listener' = [id |-> listener.id + 1, open |-> TRUE]
    /\ pc' = [pc EXCEPT ![Main] = "starting"]
    /\ UNCHANGED <<libVars, muVars, disk, now, running, connOpen, clients,
                   smu, accVars, peer, logVars, req, ret, scanK, cntVars>>

\* Start: s.running = true, go s.acceptConnections(), return nil
StartRun ==
    /\ pc[Main] = "starting"
    /\ running' = TRUE
    /\ \E a \in {IF apc["a1"] = "none" THEN "a1" ELSE "a2"} :
          /\ apc[a] = "none"
          /\ apc' = [apc EXCEPT ![a] = "check"]
    /\ pc' = [pc EXCEPT ![Main] = "srv"]
    /\ ret' = [ret EXCEPT ![Main] = Response("start", "", TRUE, DataNone, "")]
    /\ UNCHANGED <<libVars, muVars, disk, now, connOpen, regVars, alis,
                   aconn, peer, logVars, req, scanK, cntVars, ncalls, handler>>

\* Stop: s.running = false
StopBegin ==
    /\ pc[Main] = "srv"
    /\ ncalls < MaxCalls
    /\ WithinBudget
    /\ ncalls' = ncalls + 1
    /\ UNCHANGED handler
    /\ running' = FALSE
    /\ pc' = [pc EXCEPT ![Main] = "stop_lock"]
    /\ UNCHANGED <<libVars, muVars, disk, now, connOpen, regVars, accVars,
                   peer, logVars, req, ret, scanK, cntVars>>

\* Stop: s.mu.Lock()
StopLock ==
    /\ pc[Main] = "stop_lock"
    /\ smu = NoOne
    /\ smu' = Main
    /\ pc' = [pc EXCEPT ![Main] = "stop_clear"]
    /\ UNCHANGED <<libVars, muVars, disk, now, running, connOpen, listener,
                   clients, accVars, peer, logVars, ncalls, handler, req, ret, scanK,
                   cntVars>>

\* Stop, holding s.mu: conn.Close() for a connection of the registry, in
\* the order the map gives them; closing a closed connection changes
\* nothing
StopClose(c) ==
    /\ pc[Main] = "stop_clear"
    /\ c \in clients
    /\ connOpen[c]
    /\ connOpen' = [connOpen EXCEPT ![c] = FALSE]
    /\ UNCHANGED <<libVars, muVars, disk, now, running, ipcVars, pc, req, ret,
                   scanK, cntVars>>

\* Stop: every connection of the registry is closed; the registry is
\* replaced by an empty one, s.mu.Unlock()
StopClear ==
    /\ pc[Main] = "stop_clear"
    /\ \A c \in clients : ~connOpen[c]
    /\ UNCHANGED connOpen
    /\ clients' = {}
    /\ smu' = NoOne
    /\ pc' = [pc EXCEPT ![Main] = "stop_listener"]
    /\ UNCHANGED <<libVars, muVars, disk, now, running, listener, accVars,
                   peer, logVars, ncalls, handler, req, ret, scanK, cntVars>>

\* Stop: s.listener.Close() when there is a listener, and the return
StopListener ==
    /\ pc[Main] = "stop_listener"
    /\ listener' = [listener EXCEPT !.open = FALSE]
    /\ pc' = [pc EXCEPT ![Main] = "srv"]
    /\ ret' = [ret EXCEPT ![Main] = Response("stop", "", TRUE, DataNone, "")]
    /\ UNCHANGED <<libVars, muVars, disk, now, running, connOpen, clients,
                   smu, accVars, peer, logVars, ncalls, handler, req, scanK, cntVars>>

\* acceptConnections: "for s.running", read without a lock; the loop ends
\* when it is false
AcceptCheck(a) ==
    /\ apc[a] = "check"
    /\ apc' = [apc EXCEPT ![a] = IF running THEN "listener" ELSE "done"]
    /\ UNCHANGED <<libVars, muVars, disk, now, running, connOpen, regVars,
                   alis, aconn, peer, logVars, ncalls, handler, pc, req, ret,
                   scanK, cntVars>>

\* acceptConnections: the read of s.listener, again without a lock, and
\* the call of Accept on the listener it holds at that time
AcceptListener(a) ==
    /\ apc[a] = "listener"
    /\ alis' = [alis EXCEPT ![a] = listener.id]
    /\ apc' = [apc EXCEPT ![a] = "accept"]
    /\ UNCHANGED <<libVars, muVars, disk, now, running, connOpen, regVars,
                   aconn, peer, logVars, ncalls, handler, pc, req, ret, scanK,
                   cntVars>>

\* the listener the accept loop waits on is bound
Listening(a) == listener.open /\ alis[a] = listener.id

\* a client connects and s.listener.Accept() returns the connection; the
\* connections are numbered in the order of their arrival
AcceptReturn(a, c) ==
    /\ apc[a] = "accept"
    /\ Listening(a)
    /\ peer[c] = "new"
    /\ c = "c2" => peer["c1"] # "new"
    /\ peer' = [peer EXCEPT ![c] = "connected"]
    /\ connOpen' = [connOpen EXCEPT ![c] = TRUE]
    /\ aconn' = [aconn EXCEPT ![a] = c]
    /\ apc' = [apc EXCEPT ![a] = "register"]
    /\ UNCHANGED <<libVars, muVars, disk, now, running, regVars, alis,
                   logVars, ncalls, handler, pc, req, ret, scanK, cntVars>>

\* s.listener.Accept() fails on the closed listener: "continue"
AcceptFail(a) ==
    /\ apc[a] = "accept"
    /\ ~Listening(a)
    /\ apc' = [apc EXCEPT ![a] = "check"]
    /\ UNCHANGED <<libVars, muVars, disk, now, running, connOpen, regVars,
                   alis, aconn, peer, logVars, ncalls, handler, pc, req, ret, scanK,
                   cntVars>>

\* acceptConnections: s.mu.Lock()
AcceptLock(a) ==
    /\ apc[a] = "register"
    /\ smu = NoOne
    /\ smu' = a
    /\ apc' = [apc EXCEPT ![a] = "reg_body"]
    /\ UNCHANGED <<libVars, muVars, disk, now, running, connOpen, listener,
                   clients, alis, aconn, peer, logVars, ncalls, handler, pc, req, ret,
                   scanK, cntVars>>

\* acceptConnections: s.clients[conn] = true, s.mu.Unlock(); the worker of
\* the connection is not started yet
AcceptRegister(a) ==
    /\ apc[a] = "reg_body"
    /\ clients' = clients \cup {aconn[a]}
    /\ smu' = NoOne
    /\ apc' = [apc EXCEPT ![a] = "spawn"]
    /\ UNCHANGED <<libVars, muVars, disk, now, running, connOpen, listener,
                   alis, aconn, peer, logVars, ncalls, handler, pc, req, ret,
                   scanK, cntVars>>

\* acceptConnections: go s.handleClient(conn), and back to the head of the
\* loop
AcceptSpawn(a) ==
    /\ apc[a] = "spawn"
    /\ pc' = [pc EXCEPT ![aconn[a]] = "loop"]
    /\ aconn' = [aconn EXCEPT ![a] = NoOne]
    /\ apc' = [apc EXCEPT ![a] = "check"]
    /\ UNCHANGED <<libVars, muVars, disk, now, running, connOpen, regVars,
                   alis, peer, logVars, ncalls, handler, req, ret, scanK,
                   cntVars>>

\* handleClient: "for s.running"; the deferred teardown starts when it is
\* false
LoopCheck(c) ==
    /\ pc[c] = "loop"
    /\ pc' = [pc EXCEPT ![c] = IF running THEN "read" ELSE "td_close"]
    /\ UNCHANGED <<libVars, muVars, disk, now, srvVars, req, ret, scanK,
                   cntVars>>

\* the bufio.Reader of the worker may hold lines that arrived together
\* with one it has returned; they stay readable when the connection is
\* closed
MayBeBuffered(c) == rlog[c] # <<>>

\* reader.ReadString returns a line: one the client sends now, or one the
\* reader has buffered
CanReadLine(c) ==
    /\ pc[c] = "read"
    /\ (connOpen[c] /\ peer[c] = "connected") \/ MayBeBuffered(c)
    /\ nops < MaxOps
    /\ WithinBudget

\* a worker that answers a blank line like a line that does not parse
ReadLineBlankAnswered(c) ==
    /\ CanReadLine(c)
    /\ nops' = nops + 1
    /\ rlog' = [rlog EXCEPT ![c] = Append(@, Line("blank", NoRequest))]
    /\ ret' = [ret EXCEPT ![c] =
                  Response(MsgTypeError, "", FALSE, DataNone, "Invalid JSON")]
    /\ pc' = [pc EXCEPT ![c] = "send"]
    /\ UNCHANGED <<libVars, muVars, disk, now, running, connOpen, regVars,
                   accVars, peer, wlog, ncalls, handler, req, scanK, owed>>

\* the line is empty once trimmed: "continue"
ReadLineBlank(c) ==
    /\ CanReadLine(c)
    /\ nops' = nops + 1
    /\ rlog' = [rlog EXCEPT ![c] = Append(@, Line("blank", NoRequest))]
    /\ pc' = [pc EXCEPT ![c] = "loop"]
    /\ UNCHANGED <<libVars, muVars, disk, now, running, connOpen, regVars,
                   accVars, peer, wlog, ncalls, handler, req, ret, scanK, owed>>

\* a worker that writes the error and leaves the loop ("break")
ReadLineMalformedAndBreak(c) ==
    /\ CanReadLine(c)
    /\ nops' = nops + 1
    /\ rlog' = [rlog EXCEPT ![c] = Append(@, Line("malformed", NoRequest))]
    /\ wlog' = [wlog EXCEPT ![c] =
                   Append(@, Response(MsgTypeError, "", FALSE, DataNone,
                                      "Invalid JSON"))]
    /\ pc' = [pc EXCEPT ![c] = "td_close"]
    /\ UNCHANGED <<libVars, muVars, disk, now, running, connOpen, regVars,
                   accVars, peer, ncalls, handler, req, ret, scanK, owed>>

\* json.Unmarshal rejects the line: sendError(conn, "", "Invalid JSON: ...")
\* is about to write its response; "continue" follows
ReadLineMalformed(c) ==
    /\ CanReadLine(c)
    /\ nops' = nops + 1
    /\ owed' = [owed EXCEPT ![c] = @ + 1]
    /\ rlog' = [rlog EXCEPT ![c] = Append(@, Line("malformed", NoRequest))]
    /\ ret' = [ret EXCEPT ![c] =
                  Response(MsgTypeError, "", FALSE, DataNone, "Invalid JSON")]
    /\ pc' = [pc EXCEPT ![c] = "send"]
    /\ UNCHANGED <<libVars, muVars, disk, now, running, connOpen, regVars,
                   accVars, peer, wlog, ncalls, handler, req, scanK>>

\* the line decodes into a Request: s.handler(req) is entered, or
\* s.defaultHandler(req) when no handler is installed
ReadLineRequest(c, r) ==
    /\ CanReadLine(c)
    /\ nops' = nops + 1
    /\ owed' = [owed EXCEPT ![c] = @ + 1]
    /\ rlog' = [rlog EXCEPT ![c] = Append(@, Line("request", r))]
    /\ req' = [req EXCEPT ![c] = r]
    /\ pc' = [pc EXCEPT ![c] = IF handler # Nil THEN "handle" ELSE "default"]
    /\ UNCHANGED <<libVars, muVars, disk, now, running, connOpen, regVars,
                   accVars, peer, wlog, ncalls, handler, ret, scanK>>

\* a default handler that answers like the status case of handleRequest
DefaultHandlerWithVersion(c) ==
    /\ pc[c] = "default"
    /\ Returns(c, Response(MsgTypeStatus, req[c].id, TRUE,
                           DataStatus("1.0.0"), ""), "send")
    /\ UNCHANGED <<libVars, muVars, disk, now, srvVars, req, scanK,
                   cntVars>>

\* defaultHandler: type "status", the id of the request, success, and the
\* data {"status": "ready"}, which has no version
DefaultHandler(c) ==
    /\ pc[c] = "default"
    /\ Returns(c, Response(MsgTypeStatus, req[c].id, TRUE,
                           DataStatus(""), ""), "send")
    /\ UNCHANGED <<libVars, muVars, disk, now, srvVars, req, scanK,
                   cntVars>>

\* reader.ReadString fails, the connection being closed on either side and
\* no line being buffered: "break", and the deferred teardown starts
ReadFail(c) ==
    /\ pc[c] = "read"
    /\ ~connOpen[c] \/ peer[c] \in {"gone", "reset"}
    /\ pc' = [pc EXCEPT ![c] = "td_close"]
    /\ UNCHANGED <<libVars, muVars, disk, now, srvVars, req, ret, scanK,
                   cntVars>>

\* the client closes its end of the connection
ClientHangup(c) ==
    /\ peer[c] = "connected"
    /\ nops < MaxOps
    /\ WithinBudget
    /\ nops' = nops + 1
    /\ peer' = [peer EXCEPT ![c] = "gone"]
    /\ UNCHANGED <<libVars, muVars, disk, now, running, connOpen, regVars,
                   accVars, logVars, ncalls, handler, pc, req, ret, scanK, owed>>

\* json.Marshal has nothing left to read from lib.Games
Encoded(c) ==
    ret[c].data.alias = 0 \/ ret[c].data.enc = Len(ret[c].data.games)

\* sendResponse: json.Marshal encodes the next record of a response that
\* shares lib.Games, reading it without a lock
MarshalRecord(c) ==
    /\ pc[c] = "send"
    /\ ~Encoded(c)
    /\ ret' = [ret EXCEPT ![c].data.enc = @ + 1]
    /\ UNCHANGED <<libVars, muVars, disk, now, srvVars, pc, req, scanK,
                   cntVars>>

\* conn.Write: it succeeds while the client is connected, and may succeed
\* or fail once the client has closed its end; it fails on a connection
\* the server has closed, and on one where a write has failed
ConnWrite(c) ==
    IF ~connOpen[c] \/ peer[c] = "reset" THEN {FALSE}
    ELSE IF peer[c] = "gone" THEN {TRUE, FALSE}
    ELSE {TRUE}

\* s.sendResponse(conn, resp) once json.Marshal has encoded the response:
\* the line is written unless conn.Write fails; the error of the write is
\* dropped, and the loop goes on
SendLine(c) ==
    /\ pc[c] = "send"
    /\ Encoded(c)
    /\ \E ok \in ConnWrite(c) :
          /\ wlog' = [wlog EXCEPT ![c] = IF ok THEN Append(@, ret[c]) ELSE @]
          /\ owed' = [owed EXCEPT ![c] = IF ok THEN @ - 1 ELSE @]
          /\ peer' = [peer EXCEPT ![c] =
                         IF ~ok /\ connOpen[c] THEN "reset" ELSE @]
    /\ req' = [req EXCEPT ![c] = NoRequest]
    /\ ret' = [ret EXCEPT ![c] = NoResponse]
    /\ pc' = [pc EXCEPT ![c] = "loop"]
    /\ UNCHANGED <<libVars, muVars, disk, now, running, connOpen, regVars,
                   accVars, rlog, ncalls, handler, scanK, nops>>

\* the deferred function of handleClient: conn.Close()
TeardownClose(c) ==
    /\ pc[c] = "td_close"
    /\ connOpen' = [connOpen EXCEPT ![c] = FALSE]
    /\ pc' = [pc EXCEPT ![c] = "td_lock"]
    /\ UNCHANGED <<libVars, muVars, disk, now, running, ipcVars, req, ret,
                   scanK, cntVars>>

\* the deferred function: s.mu.Lock()
TeardownLock(c) ==
    /\ pc[c] = "td_lock"
    /\ smu = NoOne
    /\ smu' = c
    /\ pc' = [pc EXCEPT ![c] = "td_delete"]
    /\ UNCHANGED <<libVars, muVars, disk, now, running, connOpen, listener,
                   clients, accVars, peer, logVars, ncalls, handler, req, ret, scanK,
                   cntVars>>

\* a teardown that returns without releasing s.mu
TeardownDeleteKeepingLock(c) ==
    /\ pc[c] = "td_delete"
    /\ clients' = clients \ {c}
    /\ pc' = [pc EXCEPT ![c] = "closed"]
    /\ UNCHANGED <<libVars, muVars, disk, now, running, connOpen, listener,
                   smu, accVars, peer, logVars, ncalls, handler, req, ret, scanK,
                   cntVars>>

\* the deferred function: delete(s.clients, conn), s.mu.Unlock()
TeardownDelete(c) ==
    /\ pc[c] = "td_delete"
    /\ clients' = clients \ {c}
    /\ smu' = NoOne
    /\ pc' = [pc EXCEPT ![c] = "closed"]
    /\ UNCHANGED <<libVars, muVars, disk, now, running, connOpen, listener,
                   accVars, peer, logVars, ncalls, handler, req, ret, scanK, cntVars>>

(***************************************************************************)
(* IPCServer.handleClient as the daemon runs it.  Its clients send a line  *)
(* only after the response to the one before, so that no line waits in     *)
(* the reader of a worker, and they do not hang up.                        *)
(***************************************************************************)
\* reader.ReadString returns a line the client has sent
CanRead(c) ==
    /\ pc[c] = "read"
    /\ connOpen[c]
    /\ nops < MaxOps

\* a line that is empty once trimmed: "continue"
ReadBlank(c) ==
    /\ CanRead(c)
    /\ nops' = nops + 1
    /\ pc' = [pc EXCEPT ![c] = "loop"]
    /\ UNCHANGED <<libVars, muVars, disk, now, srvVars, req, ret, scanK,
                   owed>>

\* a line json.Unmarshal rejects: sendError(conn, "", "Invalid JSON: ...")
\* is about to write its response
ReadMalformed(c) ==
    /\ CanRead(c)
    /\ nops' = nops + 1
    /\ owed' = [owed EXCEPT ![c] = @ + 1]
    /\ req' = [req EXCEPT ![c] = Request("malformed", "", <<>>, "", "")]
    /\ ret' = [ret EXCEPT ![c] =
                  Response(MsgTypeError, "", FALSE, DataNone, "Invalid JSON")]
    /\ pc' = [pc EXCEPT ![c] = "send"]
    /\ UNCHANGED <<libVars, muVars, disk, now, srvVars, scanK>>

\* a line that decodes into a Request: s.handler(req) is entered
ReadRequest(c, r) ==
    /\ CanRead(c)
    /\ nops' = nops + 1
    /\ owed' = [owed EXCEPT ![c] = @ + 1]
    /\ req' = [req EXCEPT ![c] = r]
    /\ pc' = [pc EXCEPT ![c] = "handle"]
    /\ UNCHANGED <<libVars, muVars, disk, now, srvVars, ret, scanK>>

\* s.sendResponse(conn, resp) once json.Marshal has encoded the response:
\* conn.Write writes the line unless the connection has been closed; then
\* back to the head of the loop
Send(c) ==
    /\ pc[c] = "send"
    /\ Encoded(c)
    /\ \E ok \in ConnWrite(c) :
          owed' = [owed EXCEPT ![c] = IF ok THEN @ - 1 ELSE @]
    /\ req' = [req EXCEPT ![c] = NoRequest]
    /\ ret' = [ret EXCEPT ![c] = NoResponse]
    /\ pc' = [pc EXCEPT ![c] = "loop"]
    /\ UNCHANGED <<libVars, muVars, disk, now, srvVars, scanK, nops>>

(***************************************************************************)
(* main                                                                    *)
(***************************************************************************)
\* a call into the library from the main goroutine
MainCall(r) ==
    /\ pc[Main] = "run"
    /\ nops < MaxOps
    /\ nops' = nops + 1
    /\ req' = [req EXCEPT ![Main] = r]
    /\ pc' = [pc EXCEPT ![Main] = "call"]
    /\ UNCHANGED <<libVars, muVars, disk, now, srvVars, ret, scanK, owed>>

\* the main goroutine is done with the value the call returned
MainReturn ==
    /\ pc[Main] = "returned"
    /\ req' = [req EXCEPT ![Main] = NoRequest]
    /\ ret' = [ret EXCEPT ![Main] = NoResponse]
    /\ pc' = [pc EXCEPT ![Main] = "run"]
    /\ UNCHANGED <<libVars, muVars, disk, now, srvVars, scanK, cntVars>>

\* the shutdown signal: main calls ipcServer.Stop(), which sets
\* s.running = false; StopLock and StopClear follow
MainStop ==
    /\ pc[Main] = "run"
    /\ running' = FALSE
    /\ pc' = [pc EXCEPT ![Main] = "stop_lock"]
    /\ UNCHANGED <<libVars, muVars, disk, now, connOpen, ipcVars, req, ret,
                   scanK, cntVars>>

\* Stop: s.listener.Close() and the return to main, which calls lib.Save()
MainStopListener ==
    /\ pc[Main] = "stop_listener"
    /\ listener' = [listener EXCEPT !.open = FALSE]
    /\ pc' = [pc EXCEPT ![Main] = "save_lock"]
    /\ UNCHANGED <<libVars, muVars, disk, now, running, connOpen, clients,
                   smu, accVars, peer, logVars, ncalls, handler, req, ret,
                   scanK, cntVars>>

(***************************************************************************)
(* The specification                                                       *)
(***************************************************************************)
\* the steps a goroutine takes on its own
Progress(t) ==
    \/ SaveLock(t) \/ SaveBody(t) \/ SaveReturn(t)
    \/ ReadLock(t) \/ GetRecentBody(t)
    \/ AddLock(t) \/ AddBody(t) \/ AddAppend(t)
    \/ /\ t = Main
       /\ \/ MainReturn \/ StopLock \/ StopClear \/ MainStopListener
          \/ \E c \in Conns : StopClose(c)
    \/ /\ t \in Conns
       /\ \/ LoopCheck(t) \/ ReadFail(t) \/ MarshalRecord(t) \/ Send(t)
          \/ TeardownClose(t) \/ TeardownLock(t) \/ TeardownDelete(t)
          \/ HandleStatus(t) \/ HandleUnknown(t)
          \/ ScanLock(t) \/ ScanReset(t) \/ ScanVisit(t) \/ ScanStamp(t)
          \/ ToggleLock(t) \/ ToggleBody(t)
          \/ GetGamesBody(t) \/ GetGameBody(t) \/ GetFavoritesBody(t)

\* the steps the environment decides: a client sends a line, the main
\* goroutine calls into the library or receives the shutdown signal
Environment ==
    \/ \E c \in Conns :
          \/ ReadBlank(c)
          \/ ReadMalformed(c)
          \/ \E r \in ClientRequests : ReadRequest(c, r)
    \/ \E r \in MainCalls : MainCall(r)
    \/ MainStop

Next ==
    \/ \E c \in Conns : ReadBlank(c)
    \/ \E c \in Conns : ReadMalformed(c)
    \/ \E c \in Conns : \E r \in ClientRequests : ReadRequest(c, r)
    \/ \E c \in Conns : LoopCheck(c)
    \/ \E c \in Conns : ReadFail(c)
    \/ \E c \in Conns : MarshalRecord(c)
    \/ \E c \in Conns : Send(c)
    \/ \E c \in Conns : TeardownClose(c)
    \/ \E c \in Conns : TeardownLock(c)
    \/ \E c \in Conns : TeardownDelete(c)
    \/ \E c \in Conns : HandleStatus(c)
    \/ \E c \in Conns : HandleUnknown(c)
    \/ \E c \in Conns : ScanLock(c)
    \/ \E c \in Conns : ScanReset(c)
    \/ \E c \in Conns : ScanVisit(c)
    \/ \E c \in Conns : ScanStamp(c)
    \/ \E c \in Conns : ToggleLock(c)
    \/ \E c \in Conns : ToggleBody(c)
    \/ \E c \in Conns : GetGamesBody(c)
    \/ \E c \in Conns : GetGameBody(c)
    \/ \E c \in Conns : GetFavoritesBody(c)
    \/ \E t \in Threads : ReadLock(t)
    \/ \E t \in Threads : SaveLock(t)
    \/ \E t \in Threads : SaveBody(t)
    \/ \E t \in Threads : SaveReturn(t)
    \/ GetRecentBody(Main)
    \/ AddLock(Main)
    \/ AddBody(Main)
    \/ AddAppend(Main)
    \/ \E r \in MainCalls : MainCall(r)
    \/ MainReturn
    \/ MainStop
    \/ StopLock
    \/ \E c \in Conns : StopClose(c)
    \/ StopClear
    \/ MainStopListener
    \/ \E a \in Acceptors : AcceptFail(a)
    \/ \E a \in Acceptors : AcceptCheck(a)

Spec == Init /\ [][Next]_vars

(***************************************************************************)
(* The daemon under a fair schedule.  The clients scan, toggle a favorite  *)
(* and list the games, and the main goroutine waits for the shutdown       *)
(* signal without calling into the library.                                *)
(***************************************************************************)
FairRequests ==
    {Request(MsgTypeListGames, "r1", <<>>, "", ""),
     Request(MsgTypeToggleFavorite, "r1", IdMX, "", ""),
     Request(MsgTypeScan, "r1", <<>>, "", "")}

FairNext ==
    \/ \E c \in Conns : ReadBlank(c)
    \/ \E c \in Conns : ReadMalformed(c)
    \/ \E c \in Conns : \E r \in FairRequests : ReadRequest(c, r)
    \/ \E c \in Conns : LoopCheck(c)
    \/ \E c \in Conns : ReadFail(c)
    \/ \E c \in Conns : MarshalRecord(c)
    \/ \E c \in Conns : Send(c)
    \/ \E c \in Conns : TeardownClose(c)
    \/ \E c \in Conns : TeardownLock(c)
    \/ \E c \in Conns : TeardownDelete(c)
    \/ \E c \in Conns : ScanLock(c)
    \/ \E c \in Conns : ScanReset(c)
    \/ \E c \in Conns : ScanVisit(c)
    \/ \E c \in Conns : ScanStamp(c)
    \/ \E c \in Conns : ToggleLock(c)
    \/ \E c \in Conns : ToggleBody(c)
    \/ \E c \in Conns : GetGamesBody(c)
    \/ \E t \in Threads : ReadLock(t)
    \/ \E t \in Threads : SaveLock(t)
    \/ \E t \in Threads : SaveBody(t)
    \/ \E t \in Threads : SaveReturn(t)
    \/ MainStop
    \/ StopLock
    \/ \E c \in Conns : StopClose(c)
    \/ StopClear
    \/ MainStopListener
    \/ \E a \in Acceptors : AcceptFail(a)
    \/ \E a \in Acceptors : AcceptCheck(a)

\* Every goroutine that can take a step of its own eventually takes one, and
\* a goroutine waiting for a mutex gets it if it is free again and again.
FairSpec ==
    /\ Init
    /\ [][FairNext]_vars
    /\ \A t \in Threads : WF_vars(Progress(t))
    /\ \A t \in Threads :
          SF_vars(\/ SaveLock(t) \/ ReadLock(t)
                  \/ t = Main /\ StopLock
                  \/ t \in Conns
                       /\ (ScanLock(t) \/ ToggleLock(t) \/ TeardownLock(t)))

(***************************************************************************)
(* The library on its own: one process after another starts on the         *)
(* snapshot file the last one left, one client lists games, and the main   *)
(* goroutine calls AddScanPath, GetRecentlyPlayed and generateID before it *)
(* shuts down.                                                             *)
(***************************************************************************)
\* a snapshot left by an earlier run: three games played at different
\* times, the oldest first
PlayedGames ==
    << [NewGame(FileAgba, "GBA") EXCEPT !.LastPlayed = 1, !.PlayCount = 1,
                                        !.Category = "Action"],
       [NewGame(FileAnes, "NES") EXCEPT !.LastPlayed = 2, !.PlayCount = 2,
                                        !.Favorite = TRUE,
                                        !.Category = "Action"],
       [NewGame(FileMGBA, "GBA") EXCEPT !.LastPlayed = 3, !.PlayCount = 1] >>

PlayedSnapshot ==
    Marshal(PlayedGames, <<DirR, DirRS>>,
            ("Action" :> 2) @@ (Uncategorized :> 1),
            ("GBA" :> 2) @@ ("NES" :> 1), 2)

\* the snapshot files a process may find when it starts
LibDisks ==
    {DiskMissing, DiskTorn, DiskFile(OldSnapshot), DiskFile(PlayedSnapshot)}

\* the error of json.Unmarshal for a document that does not parse
ErrDecode == "invalid character"

\* a Load for which a missing file is an error like any other
LoadErrStrict(d) == IF ~d.exists \/ ~d.valid THEN ErrDecode ELSE Nil

\* the error Load returns: nil when the file is missing (os.IsNotExist) or
\* parses, the decode error otherwise
LoadErr(d) == IF d.exists /\ ~d.valid THEN ErrDecode ELSE Nil

\* the call lib.Load() of NewLibrary and what it returns
LoadCall == ApiCall("load", <<>>, 0)
LoadResponse(d) == Response("load", "", LoadErr(d) = Nil, DataNone, LoadErr(d))

\* the paths generateID is called with: directory, name and extension
IDDirs == {<<>>, <<47,114,47>>, <<47,114,47,115,47>>}
IDStems ==
    {<<97>>,                                     \* a
     <<90,101,108,100,97>>,                      \* Zelda
     <<109,97,114,105,111,95,54,52>>,            \* mario_64
     <<49,50,51,52,53,54,55,56,57>>,             \* 123456789
     <<83,117,112,101,114,77,97,114,105,111,66,114,111,115>>,  \* SuperMarioBros
     <<118,49,46,50>>}                           \* v1.2
IDExts == {<<>>, <<46,103,98,97>>, <<46,78,69,83>>, <<46>>}
IDPaths ==
    {d \o n \o e : d \in IDDirs, n \in IDStems, e \in IDExts}
        \cup {<<47,114,47,46,103,98,97>>}         \* /r/.gba

\* the file names cleanGameTitle is called with:
\*   "Super_Mario-Bros (USA).nes"
\*   " Zelda(Europe)(Japan) .gba"
\*   "((USA)USA).nes"
\*   "(U(Europe)SA).z64"
\*   "a(Jap(USA)an)b.smc"
\*   "x - y_(usa).gb"
\*   "_-_.nes"
\*   "noext"
\*   "v1.2"
\*   ".gba"
\*   "(Eur(Japan)ope) Rally.bin"
\*   "\tPong (Japan)\t.a26"
\*   "Metroid (USA) II.gb"
TitleNames ==
    {<<83,117,112,101,114,95,77,97,114,105,111,45,66,114,111,115,32,40,85,83,65,41,46,110,101,115>>,
     <<32,90,101,108,100,97,40,69,117,114,111,112,101,41,40,74,97,112,97,110,41,32,46,103,98,97>>,
     <<40,40,85,83,65,41,85,83,65,41,46,110,101,115>>,
     <<40,85,40,69,117,114,111,112,101,41,83,65,41,46,122,54,52>>,
     <<97,40,74,97,112,40,85,83,65,41,97,110,41,98,46,115,109,99>>,
     <<120,32,45,32,121,95,40,117,115,97,41,46,103,98>>,
     <<95,45,95,46,110,101,115>>,
     <<110,111,101,120,116>>,
     <<118,49,46,50>>,
     <<46,103,98,97>>,
     <<40,69,117,114,40,74,97,112,97,110,41,111,112,101,41,32,82,97,108,108,121,46,98,105,110>>,
     <<9,80,111,110,103,32,40,74,97,112,97,110,41,9,46,97,50,54>>,
     <<77,101,116,114,111,105,100,32,40,85,83,65,41,32,73,73,46,103,98>>}

\* types the router has no case for: the declared tokens launch_game,
\* get_categories, get_platforms, get_recent and add_scan_path, the
\* response types, the empty type and a type in the wrong case
UnroutedTypes ==
    {"launch_game", "get_categories", "get_platforms", MsgTypeGetRecent,
     MsgTypeAddScanPath, MsgTypeError, MsgTypeSuccess, "", "Status"}

\* the client that connects
LibConns == {"c1"}

\* the requests it sends
LibRequests ==
    {Request(MsgTypeListGames, "r1", <<>>, "", ""),
     Request(MsgTypeListGames, "r2", <<>>, "GBA", ""),
     Request(MsgTypeListGames, "r3", <<>>, "", "Action"),
     Request(MsgTypeListGames, "r4", <<>>, "GBA", "Action"),
     Request(MsgTypeListGames, "r5", <<>>, "NES", Uncategorized),
     Request(MsgTypeListGames, "r6", <<>>, "N64", ""),
     Request(MsgTypeGetGame, "r7", IdAZ, "", ""),
     Request(MsgTypeGetGame, "", IdMX, "", ""),
     Request(MsgTypeGetGame, "r1", IdNOPE, "", "")}
        \cup {Request(type, IF type = MsgTypeGetRecent THEN "" ELSE "r8",
                       <<>>, "", "") : type \in UnroutedTypes}

\* the calls the main goroutine makes
LibCalls ==
    {ApiCall(MsgTypeAddScanPath, DirBad, 0),
     ApiCall(MsgTypeAddScanPath, DirRS, 0)}
        \cup {ApiCall(MsgTypeGetRecent, <<>>, n) : n \in -1..4}
        \cup {ApiCall("generate_id", path, 0) : path \in IDPaths}
        \cup {ApiCall("clean_title", name, 0) : name \in TitleNames}

\* a process has started and NewLibrary's lib.Load() has returned; the
\* server is not started yet
LibInit ==
    /\ disk \in LibDisks
    /\ Games = LoadedSnapshot(disk).games
    /\ ScanPaths = LoadedSnapshot(disk).scan_paths
    /\ Categories = LoadedSnapshot(disk).categories
    /\ Platforms = LoadedSnapshot(disk).platforms
    /\ LastScan = LoadedSnapshot(disk).last_scan
    /\ muWriter = NoOne
    /\ muReaders = {}
    /\ now = StartTime
    /\ running = FALSE
    /\ connOpen = [c \in Conns |-> FALSE]
    /\ NewIPCServer
    /\ SetHandler
    /\ pc = [t \in Threads |-> IF t = Main THEN "loaded" ELSE "none"]
    /\ req = [t \in Threads |-> IF t = Main THEN LoadCall ELSE NoRequest]
    /\ ret = [t \in Threads |->
                IF t = Main THEN LoadResponse(disk) ELSE NoResponse]
    /\ scanK = [t \in Threads |-> 1]
    /\ owed = [c \in Conns |-> 0]
    /\ nops = 0

\* NewLibrary drops the error of Load and returns; main calls
\* ipcServer.Start(), where net.Listen binds the port: s.listener = listener
MainStartListen ==
    /\ pc[Main] = "loaded"
    /\ listener' = [id |-> listener.id + 1, open |-> TRUE]
    /\ req' = [req EXCEPT ![Main] = NoRequest]
    /\ ret' = [ret EXCEPT ![Main] = NoResponse]
    /\ pc' = [pc EXCEPT ![Main] = "starting"]
    /\ UNCHANGED <<libVars, muVars, disk, now, running, connOpen, clients,
                   smu, accVars, peer, logVars, ncalls, handler, scanK,
                   cntVars>>

\* net.Listen fails, the port being bound by another process: Start
\* returns the error, main prints it and calls os.Exit(1); nothing is saved
MainStartFails ==
    /\ pc[Main] = "loaded"
    /\ req' = [req EXCEPT ![Main] = NoRequest]
    /\ ret' = [ret EXCEPT ![Main] =
                  Response("start", "", FALSE, DataNone, ErrListen)]
    /\ pc' = [pc EXCEPT ![Main] = "exited"]
    /\ UNCHANGED <<libVars, muVars, disk, now, srvVars, scanK, cntVars>>

\* Start: s.running = true, go s.acceptConnections(), return nil; main
\* waits for the shutdown signal
MainStartRun ==
    /\ pc[Main] = "starting"
    /\ running' = TRUE
    /\ apc' = [apc EXCEPT !["a1"] = "check"]
    /\ pc' = [pc EXCEPT ![Main] = "run"]
    /\ UNCHANGED <<libVars, muVars, disk, now, connOpen, regVars, alis,
                   aconn, peer, logVars, ncalls, handler, req, ret, scanK,
                   cntVars>>

\* the process has ended, after the Save of main or through os.Exit(1), and
\* its goroutines and connections with it; the next process starts:
\* NewLibrary makes an empty library and lib.Load() reads the file, and
\* NewIPCServer makes the server
Restart ==
    /\ pc[Main] = "exited"
    /\ Games' = LoadedSnapshot(disk).games
    /\ ScanPaths' = LoadedSnapshot(disk).scan_paths
    /\ Categories' = LoadedSnapshot(disk).categories
    /\ Platforms' = LoadedSnapshot(disk).platforms
    /\ LastScan' = LoadedSnapshot(disk).last_scan
    /\ muWriter' = NoOne
    /\ muReaders' = {}
    /\ running' = FALSE
    /\ connOpen' = [c \in Conns |-> FALSE]
    /\ listener' = NilListener
    /\ clients' = {}
    /\ smu' = NoOne
    /\ apc' = [a \in Acceptors |-> "none"]
    /\ alis' = [a \in Acceptors |-> 0]
    /\ aconn' = [a \in Acceptors |-> NoOne]
    /\ peer' = [c \in Conns |-> "new"]
    /\ pc' = [t \in Threads |-> IF t = Main THEN "loaded" ELSE "none"]
    /\ req' = [t \in Threads |-> IF t = Main THEN LoadCall ELSE NoRequest]
    /\ ret' = [t \in Threads |->
                 IF t = Main THEN LoadResponse(disk) ELSE NoResponse]
    /\ scanK' = [t \in Threads |-> 1]
    /\ owed' = [c \in Conns |-> 0]
    /\ UNCHANGED <<disk, now, nops, logVars, ncalls, handler>>

\* generateID(path), called on its own
GenerateIDBody ==
    /\ pc[Main] = "call"
    /\ req[Main].type = "generate_id"
    /\ Returns(Main, Response("id", "", TRUE,
                               Data("id", <<GenerateID(req[Main].arg)>>, 0, 0),
                               ""), "returned")
    /\ UNCHANGED <<libVars, muVars, disk, now, srvVars, req, scanK, cntVars>>

\* cleanGameTitle(filename), called on its own
CleanTitleBody ==
    /\ pc[Main] = "call"
    /\ req[Main].type = "clean_title"
    /\ Returns(Main, Response("title", "", TRUE,
                               Data("title", <<CleanGameTitle(req[Main].arg)>>,
                                    0, 0), ""), "returned")
    /\ UNCHANGED <<libVars, muVars, disk, now, srvVars, req, scanK, cntVars>>

LibNext ==
    \/ MainStartListen
    \/ MainStartFails
    \/ MainStartRun
    \/ Restart
    \/ \E a \in Acceptors : AcceptCheck(a)
    \/ \E a \in Acceptors : AcceptListener(a)
    \/ \E a \in Acceptors : \E c \in LibConns : AcceptReturn(a, c)
    \/ \E a \in Acceptors : AcceptFail(a)
    \/ \E a \in Acceptors : AcceptLock(a)
    \/ \E a \in Acceptors : AcceptRegister(a)
    \/ \E a \in Acceptors : AcceptSpawn(a)
    \/ \E c \in LibConns : LoopCheck(c)
    \/ \E c \in LibConns : \E r \in LibRequests : ReadRequest(c, r)
    \/ \E c \in LibConns : ReadFail(c)
    \/ \E c \in LibConns : MarshalRecord(c)
    \/ \E c \in LibConns : Send(c)
    \/ \E c \in LibConns : TeardownClose(c)
    \/ \E c \in LibConns : TeardownLock(c)
    \/ \E c \in LibConns : TeardownDelete(c)
    \/ \E c \in LibConns : GetGamesBody(c)
    \/ \E c \in LibConns : GetGameBody(c)
    \/ \E c \in LibConns : HandleUnknown(c)
    \/ \E t \in LibConns \cup {Main} : ReadLock(t)
    \/ GetRecentBody(Main)
    \/ AddLock(Main)
    \/ AddBody(Main)
    \/ AddAppend(Main)
    \/ GenerateIDBody
    \/ CleanTitleBody
    \/ \E r \in LibCalls : MainCall(r)
    \/ MainReturn
    \/ MainStop
    \/ StopLock
    \/ \E c \in Conns : StopClose(c)
    \/ StopClear
    \/ MainStopListener
    \/ SaveLock(Main)
    \/ SaveBody(Main)
    \/ SaveReturn(Main)

LibSpec == LibInit /\ [][LibNext]_vars

(***************************************************************************)
(* The library called by several goroutines at once: each of them adds     *)
(* scan paths, reads the recently played games, toggles a favorite or      *)
(* scans, and calls again when its call has returned.                      *)
(***************************************************************************)
\* the calls the goroutines make
AddCalls ==
    {ApiCall(MsgTypeAddScanPath, DirR, 0),
     ApiCall(MsgTypeAddScanPath, DirRS, 0),
     ApiCall(MsgTypeAddScanPath, FileAnes, 0),
     ApiCall(MsgTypeGetRecent, <<>>, 1),
     Request(MsgTypeToggleFavorite, "r1", IdMX, "", ""),
     Request(MsgTypeScan, "r1", <<>>, "", "")}

\* NewLibrary has loaded the file; no goroutine is in the library
AddInit ==
    /\ disk \in InitialDisks
    /\ Games = LoadedSnapshot(disk).games
    /\ ScanPaths = LoadedSnapshot(disk).scan_paths
    /\ Categories = LoadedSnapshot(disk).categories
    /\ Platforms = LoadedSnapshot(disk).platforms
    /\ LastScan = LoadedSnapshot(disk).last_scan
    /\ muWriter = NoOne
    /\ muReaders = {}
    /\ now = StartTime
    /\ running = FALSE
    /\ connOpen = [c \in Conns |-> FALSE]
    /\ NewIPCServer
    /\ SetHandler
    /\ pc = [t \in Threads |-> "run"]
    /\ req = [t \in Threads |-> NoRequest]
    /\ ret = [t \in Threads |-> NoResponse]
    /\ scanK = [t \in Threads |-> 1]
    /\ owed = [c \in Conns |-> 0]
    /\ nops = 0

\* a goroutine calls into the library
LibraryCall(t, r) ==
    /\ pc[t] = "run"
    /\ nops < MaxOps
    /\ nops' = nops + 1
    /\ req' = [req EXCEPT ![t] = r]
    /\ pc' = [pc EXCEPT ![t] =
                 IF r.type \in {MsgTypeAddScanPath, MsgTypeGetRecent}
                 THEN "call" ELSE "handle"]
    /\ UNCHANGED <<libVars, muVars, disk, now, srvVars, ret, scanK, owed>>

\* the goroutine is done with the value the call returned
LibraryReturn(t) ==
    /\ pc[t] \in {"returned", "send"}
    /\ req' = [req EXCEPT ![t] = NoRequest]
    /\ ret' = [ret EXCEPT ![t] = NoResponse]
    /\ pc' = [pc EXCEPT ![t] = "run"]
    /\ UNCHANGED <<libVars, muVars, disk, now, srvVars, scanK, cntVars>>

AddNext ==
    \/ \E t \in Threads : \E r \in AddCalls : LibraryCall(t, r)
    \/ \E t \in Threads : LibraryReturn(t)
    \/ \E t \in Threads : AddLock(t)
    \/ \E t \in Threads : AddBody(t)
    \/ \E t \in Threads : AddAppend(t)
    \/ \E t \in Threads : ReadLock(t)
    \/ \E t \in Threads : GetRecentBody(t)
    \/ \E t \in Threads : ToggleLock(t)
    \/ \E t \in Threads : ToggleBody(t)
    \/ \E t \in Threads : ScanLock(t)
    \/ \E t \in Threads : ScanReset(t)
    \/ \E t \in Threads : ScanVisit(t)
    \/ \E t \in Threads : ScanStamp(t)

AddSpec == AddInit /\ [][AddNext]_vars

(***************************************************************************)
(* The specifications of the IPC server                                   *)
(***************************************************************************)
\* the steps a goroutine of the server takes on its own.  Scan stops at its
\* call of Save, whose Lock() never returns.
SrvProgress(t) ==
    \/ /\ t = Main
       /\ \/ StartRun \/ StopLock \/ StopClear \/ StopListener
          \/ \E c \in Conns : StopClose(c)
    \/ /\ t \in Acceptors
       /\ \/ AcceptCheck(t) \/ AcceptListener(t) \/ AcceptFail(t)
          \/ AcceptLock(t) \/ AcceptRegister(t) \/ AcceptSpawn(t)
    \/ /\ t \in Conns
       /\ \/ LoopCheck(t) \/ ReadFail(t) \/ MarshalRecord(t) \/ SendLine(t)
          \/ TeardownClose(t) \/ TeardownLock(t) \/ TeardownDelete(t)
          \/ HandleStatus(t) \/ HandleUnknown(t)
          \/ ReadLock(t) \/ GetGameBody(t)
          \/ ScanLock(t) \/ ScanReset(t) \/ ScanVisit(t) \/ ScanStamp(t)

SrvNext ==
    \/ StartFails
    \/ StartListen
    \/ StartRun
    \/ StopBegin
    \/ StopLock
    \/ \E c \in Conns : StopClose(c)
    \/ StopClear
    \/ StopListener
    \/ \E a \in Acceptors : AcceptCheck(a)
    \/ \E a \in Acceptors : AcceptListener(a)
    \/ \E a \in Acceptors : \E c \in Conns : AcceptReturn(a, c)
    \/ \E a \in Acceptors : AcceptFail(a)
    \/ \E a \in Acceptors : AcceptLock(a)
    \/ \E a \in Acceptors : AcceptRegister(a)
    \/ \E a \in Acceptors : AcceptSpawn(a)
    \/ \E c \in Conns : LoopCheck(c)
    \/ \E c \in Conns : ReadLineBlank(c)
    \/ \E c \in Conns : ReadLineMalformed(c)
    \/ \E c \in Conns : \E r \in SrvRequests : ReadLineRequest(c, r)
    \/ \E c \in Conns : ReadFail(c)
    \/ \E c \in Conns : ClientHangup(c)
    \/ \E c \in Conns : MarshalRecord(c)
    \/ \E c \in Conns : SendLine(c)
    \/ \E c \in Conns : TeardownClose(c)
    \/ \E c \in Conns : TeardownLock(c)
    \/ \E c \in Conns : TeardownDelete(c)
    \/ \E c \in Conns : HandleStatus(c)
    \/ \E c \in Conns : HandleUnknown(c)
    \/ \E c \in Conns : ReadLock(c)
    \/ \E c \in Conns : GetGameBody(c)
    \/ \E c \in Conns : ScanLock(c)
    \/ \E c \in Conns : ScanReset(c)
    \/ \E c \in Conns : ScanVisit(c)
    \/ \E c \in Conns : ScanStamp(c)

SrvSpec == SrvInit /\ [][SrvNext]_vars

\* the server with or without an installed handler
HandlerNext ==
    \/ SrvNext
    \/ \E c \in Conns : DefaultHandler(c)

HandlerSpec == HandlerInit /\ [][HandlerNext]_vars

\* the goroutine holding s.mu runs the statements up to its Unlock
Unlocks ==
    \/ \E a \in Acceptors : AcceptRegister(a)
    \/ \E c \in Conns : TeardownDelete(c)

\* The main goroutine takes the steps it can take, a goroutine holding s.mu
\* reaches its Unlock, and Stop, waiting for s.mu, gets it if it is free
\* again and again (sync.Mutex does not starve a waiter).  Nothing is
\* assumed of the other steps of the workers and of the accept loops.
FairSrvSpec ==
    /\ SrvSpec
    /\ WF_vars(SrvProgress(Main))
    /\ WF_vars(Unlocks)
    /\ SF_vars(StopLock)

\* a step of the main goroutine inside Start or Stop, or of a worker
GoroutineStep == \E t \in Threads : SrvProgress(t)

\* The scheduler runs the goroutines: while the main goroutine or a worker
\* can take a step one of them does, and the holder of s.mu reaches its
\* Unlock.  This asks less than a fair schedule of every goroutine.
FairWorkerSpec ==
    /\ SrvSpec
    /\ WF_vars(GoroutineStep)
    /\ WF_vars(Unlocks)

(***************************************************************************)
(* Properties                                                              *)
(***************************************************************************)
\* the document a successful save of the current library leaves on disk
CurrentSnapshot == Marshal(Games, ScanPaths, Categories, Platforms, LastScan)

\* a connection worker has called Scan and Scan has not returned
InScan(c) ==
    /\ req[c].type = MsgTypeScan
    /\ pc[c] \in {"handle", "scan_reset", "scan_walk", "save_lock", "save_body"}

\* Scan has finished its walk and set LastScan; it has not returned
ScanCommitted(c) ==
    /\ req[c].type = MsgTypeScan
    /\ pc[c] \in {"save_lock", "save_body"}

\* Scan has started to rebuild the store and has not finished the walk
ScanPartial(c) == pc[c] = "scan_walk"

\* Scan has returned to handleRequest, which builds the response to the
\* scan request and hands it to the worker
ScanReturned(c) == req[c].type = MsgTypeScan /\ pc[c] \in {"save_ret", "send"}

\* the goroutine is inside a section the code runs under lib.mu.Lock()
InExclusive(t) ==
    \/ pc[t] \in {"scan_reset", "scan_walk", "toggle_body", "save_body",
                  "add_body", "add_append"}
    \/ t \in Conns /\ pc[t] = "save_lock"

\* the goroutine is inside a section the code runs under lib.mu.RLock()
InShared(t) == pc[t] = "read_body"

\* some platform registers the lower-cased extension of the path
Mapped(path) ==
    \E p \in PlatformNames :
        ToLower(Ext(path)) \in SeqRange(PlatformExtensions[p])

PathsOf(games) == [i \in 1..Len(games) |-> games[i].Path]

\* C1: every call of Scan terminates: a worker that has called Scan
\* eventually is out of Scan again, having released the store lock.
C1_ScanTerminates == \A c \in Conns : InScan(c) ~> ~InScan(c)

\* C1, what the code does instead: Scan never returns, so no scan request
\* ever has a response to send.
C1_ScanNeverReturns == \A c \in Conns : ~ScanReturned(c)

\* C1 witness: Scan has finished its walk and waits, inside Save, for the
\* lock its own goroutine holds, while another goroutine waits for the same
\* lock.
C1_Witness ==
    \E c \in Conns, t \in Threads :
        /\ ScanCommitted(c) /\ pc[c] = "save_lock" /\ muWriter = c
        /\ t # c
        /\ \/ pc[t] = "save_lock"
           \/ pc[t] = "handle" /\ req[t].type \in ReadTypes

\* C2: while the server runs and the connection stays open, every
\* non-blank line a worker has read is eventually answered by one response
\* line, and no line is answered twice.
C2_EveryRequestAnswered ==
    /\ [](\A c \in Conns : owed[c] \in {0, 1})
    /\ \A c \in Conns :
          (owed[c] = 1) ~> (owed[c] = 0 \/ ~running \/ ~connOpen[c])

\* C3: in every reachable state of the store no two records of Games have
\* the same ID.
C3_UniqueIDs ==
    \A i, j \in 1..Len(Games) : i # j => Games[i].ID # Games[j].ID

\* C3 witness: one Scan of one root has recorded two files with different
\* paths under the same ID.
C3_Witness ==
    \E i, j \in 1..Len(Games) :
        /\ i # j
        /\ Games[i].Path = FileAgba /\ Games[j].Path = FileAnes
        /\ Games[i].ID = Games[j].ID
        /\ ScanPaths = <<DirR>>

\* C4: a read operation never computes its result from a partially rebuilt
\* store: whenever a goroutine is inside GetGames, GetGameByID, GetFavorites
\* or GetRecentlyPlayed, no Scan is between its reset and the end of its
\* walk, so the read sees the state before the Scan or the state after it.
C4_ScanAtomicForReaders ==
    \A t \in Threads : InShared(t) => \A c \in Conns : ~ScanPartial(c)

\* C4 witness: a Scan has rebuilt part of the store while a read request
\* of another worker waits for the lock.
C4_Witness ==
    \E c \in Conns, t \in Threads :
        /\ ScanPartial(c) /\ scanK[c] > 1
        /\ Len(Games) >= 1
        /\ Len(Games) < Len(SelectSeq(Visits(ScanPaths), Mapped))
        /\ t # c /\ pc[t] = "handle" /\ req[t].type \in ReadTypes

\* C5: lock discipline: the bodies of Scan, ToggleFavorite, Save (and
\* AddScanPath) run with the mutex held exclusively by their goroutine, the
\* bodies of the four read operations with the mutex shared; no two
\* exclusive holders coexist and no exclusive holder coexists with a shared
\* holder.
C5_LockDiscipline ==
    /\ \A t \in Threads : InExclusive(t) <=> muWriter = t
    /\ \A t \in Threads : InShared(t) <=> t \in muReaders
    /\ Cardinality({t \in Threads : InExclusive(t)}) <= 1
    /\ (\E t \in Threads : InExclusive(t)) => ~(\E t \in Threads : InShared(t))

\* C5 witness: two goroutines share the mutex while a third one waits to
\* take it exclusively.
C5_Witness ==
    /\ Cardinality(muReaders) >= 2
    /\ \E c \in Conns :
          pc[c] = "handle" /\ req[c].type \in {MsgTypeScan, MsgTypeToggleFavorite}

\* C6: during and after a Scan the records are exactly the visited files
\* whose lower-cased extension some platform registers, one record per
\* visit in visiting order, each under the platform that registers its
\* extension.
C6_ScanClassifies ==
    \A c \in Conns :
        LET visited ==
                IF ScanPartial(c)
                THEN SubSeq(Visits(ScanPaths), 1, scanK[c] - 1)
                ELSE Visits(ScanPaths)
        IN (ScanPartial(c) \/ ScanCommitted(c)) =>
              /\ PathsOf(Games) = SelectSeq(visited, Mapped)
              /\ \A i \in 1..Len(Games) :
                    /\ Games[i].Platform \in PlatformNames
                    /\ ToLower(Ext(Games[i].Path))
                          \in SeqRange(PlatformExtensions[Games[i].Platform])

\* C6 witness: a finished Scan that visited a file with an upper-case
\* extension (recorded) and a file with an unmapped extension (skipped).
C6_Witness ==
    \E c \in Conns :
        /\ ScanCommitted(c)
        /\ FileNtxt \in SeqRange(Visits(ScanPaths))
        /\ FileNtxt \notin SeqRange(PathsOf(Games))
        /\ \E i \in 1..Len(Games) :
              Games[i].Path = FileMGBA /\ Games[i].Platform = "GBA"

\* C7: after a Scan every record is freshly built: Favorite is false,
\* PlayCount is 0, LastPlayed is the zero time and Category is
\* "Uncategorized", whatever the records held before.
C7_ScanRebuilds ==
    \A c \in Conns :
        ScanCommitted(c) =>
            \A i \in 1..Len(Games) :
                /\ ~Games[i].Favorite
                /\ Games[i].PlayCount = 0
                /\ Games[i].LastPlayed = 0
                /\ Games[i].Category = Uncategorized

\* C7 witness: a finished Scan found a file again whose record before the
\* Scan (still in the snapshot file) was a played favorite in another
\* category.
C7_Witness ==
    \E c \in Conns :
        /\ ScanCommitted(c)
        /\ disk.exists /\ disk.valid
        /\ \E i \in 1..Len(Games), j \in 1..Len(disk.snap.games) :
              /\ disk.snap.games[j].Path = Games[i].Path
              /\ disk.snap.games[j].Favorite
              /\ disk.snap.games[j].PlayCount > 0
              /\ disk.snap.games[j].LastPlayed > 0
              /\ disk.snap.games[j].Category # Uncategorized

\* the step that runs the body of ToggleFavorite
ToggleStep(c) == pc[c] = "toggle_body" /\ pc'[c] = "send"

\* C10: ToggleFavorite(id) flips the Favorite flag of the first record with
\* that ID and nothing else, and writes the snapshot before it returns: it
\* returns nil with the file holding the new state, or the write error.
\* When no record has the ID it returns nil, and neither the store nor the
\* file changes.
C10_ToggleFavorite ==
    [][\A c \in Conns :
          ToggleStep(c) =>
            LET hits == {i \in 1..Len(Games) : Games[i].ID = req[c].arg}
                i == CHOOSE k \in hits : \A j \in hits : k <= j
            IN /\ UNCHANGED <<ScanPaths, Categories, Platforms, LastScan>>
               /\ muWriter' = NoOne
               /\ ret'[c].id = req[c].id
               /\ IF hits = {}
                  THEN /\ Games' = Games
                       /\ disk' = disk
                       /\ ret'[c].success /\ ret'[c].error = ""
                  ELSE /\ Games' = [Games EXCEPT ![i].Favorite = ~Games[i].Favorite]
                       /\ \/ /\ ret'[c].success
                             /\ disk' = DiskFile(CurrentSnapshot')
                          \/ /\ ~ret'[c].success
                             /\ ret'[c].error = ErrWrite]_vars

\* C10 witness: ToggleFavorite has flipped the favorite "MX" back to false
\* and written the snapshot.
C10_Witness ==
    \E c \in Conns :
        /\ pc[c] = "send"
        /\ req[c].type = MsgTypeToggleFavorite
        /\ req[c].arg = IdMX
        /\ ret[c].success
        /\ Len(Games) = 2 /\ Games[2].ID = IdMX /\ ~Games[2].Favorite
        /\ disk = DiskFile(CurrentSnapshot)

\* the request of the worker names the ID of some record
ToggleHits(c) == \E i \in 1..Len(Games) : Games[i].ID = req[c].arg

\* C11: ToggleFavorite is self-inverse: after a call of ToggleFavorite on
\* an existing ID, a second call on the same ID, with nothing in between,
\* finds the same record and gives back the record sequence as it was
\* before the first call.
C11_ToggleSelfInverse ==
    [][\A c \in Conns :
          ToggleStep(c) /\ ToggleHits(c) =>
            LET second == FirstIndex(Games', req[c].arg)
            IN /\ second = FirstIndex(Games, req[c].arg)
               /\ second # 0
               /\ FlipFavorite(Games', second) = Games
               /\ FlipFavorite(Games', second)[second].Favorite
                     = Games[second].Favorite]_vars

\* C11 witness: the second of two ToggleFavorite calls on "AZ" has
\* returned and the records are those the daemon started with.
C11_Witness ==
    \E c \in Conns :
        /\ pc[c] = "send"
        /\ req[c].type = MsgTypeToggleFavorite /\ req[c].arg = IdAZ
        /\ nops = 2
        /\ Games = OldGames
        /\ ~Games[1].Favorite

\* a goroutine takes a step of its own
Steps(t) == pc'[t] # pc[t] \/ scanK'[t] # scanK[t]

\* C12: only ToggleFavorite and Scan change a record: a step that changes
\* the record sequence is a step of the body of ToggleFavorite or of Scan;
\* the bodies of the reads, of AddScanPath and of Save leave it alone; and
\* ToggleFavorite(id) changes the Favorite flag of exactly one record, the
\* first with the ID (none when no record has it), no other field, no
\* other record, not the scan paths and not the count mappings.
C12_FavoriteFrame ==
    [][/\ Games' # Games =>
             \E c \in Conns :
                 /\ Steps(c)
                 /\ pc[c] \in {"toggle_body", "scan_reset", "scan_walk"}
       /\ \A t \in Threads :
             Steps(t) /\ pc[t] \in {"read_body", "add_body", "add_append",
                                     "save_body"}
                 => Games' = Games
       /\ \A c \in Conns :
             ToggleStep(c) =>
                LET changed == {i \in 1..Len(Games) : Games'[i] # Games[i]}
                IN /\ Len(Games') = Len(Games)
                   /\ Cardinality(changed) = IF ToggleHits(c) THEN 1 ELSE 0
                   /\ \A i \in changed :
                         /\ Games[i].ID = req[c].arg
                         /\ Games'[i] = [Games[i] EXCEPT
                                           !.Favorite = ~Games[i].Favorite]
                   /\ UNCHANGED <<ScanPaths, Categories, Platforms,
                                  LastScan>>]_vars

\* C12 witness: ToggleFavorite("AZ") has made the first of two records a
\* favorite and the second record is as it was.
C12_Witness ==
    \E c \in Conns :
        /\ pc[c] = "send"
        /\ req[c].type = MsgTypeToggleFavorite /\ req[c].arg = IdAZ
        /\ Len(Games) = 2
        /\ Games[1] = [OldGames[1] EXCEPT !.Favorite = TRUE]
        /\ Games[2] = OldGames[2]

\* AddScanPath has returned to the main goroutine
AddReturned == pc[Main] = "returned" /\ req[Main].type = MsgTypeAddScanPath

\* AddScanPath has returned to the goroutine
AddReturnedTo(t) == pc[t] = "returned" /\ req[t].type = MsgTypeAddScanPath

\* the goroutine is inside AddScanPath, waiting for the lock or past it
InAddScanPath(t) ==
    /\ req[t].type = MsgTypeAddScanPath
    /\ pc[t] \in {"call", "add_body", "add_append"}

\* how often the path occurs in the list
Occurrences(paths, path) ==
    Cardinality({i \in 1..Len(paths) : paths[i] = path})

\* C13: AddScanPath is idempotent, whichever goroutines call it and
\* however their calls overlap with each other and with the other
\* operations: the scan-path list never holds two equal strings, and when
\* AddScanPath(path) has returned nil to a goroutine the list holds path
\* exactly once, however often it was added before.
C13_AddScanPathIdempotent ==
    /\ \A i, j \in 1..Len(ScanPaths) : i # j => ScanPaths[i] # ScanPaths[j]
    /\ \A t \in Threads :
          AddReturnedTo(t) /\ ret[t].success =>
             Occurrences(ScanPaths, req[t].arg) = 1

\* C13 witness: starting with no snapshot file, three goroutines have
\* called AddScanPath("/r") at the same time: it has returned nil to two of
\* them and the third is in its loop over the list, which holds "/r" once.
C13_Witness ==
    /\ ~disk.exists
    /\ AddReturnedTo("c1") /\ ret["c1"].success /\ req["c1"].arg = DirR
    /\ AddReturnedTo("c2") /\ ret["c2"].success /\ req["c2"].arg = DirR
    /\ InAddScanPath(Main) /\ pc[Main] = "add_body" /\ req[Main].arg = DirR
    /\ ScanPaths = <<DirR>>

\* C14: AddScanPath(path) fails with a not-found error when the path does
\* not exist, and with a different error, one that does not say "not
\* found", when the path exists and is not a directory; in both cases the
\* path is not put on the scan-path list.
C14_AddScanPathErrors ==
    AddReturned =>
        /\ ~StatExists(req[Main].arg) =>
              /\ ~ret[Main].success
              /\ IsNotExist(ret[Main].error)
              /\ req[Main].arg \notin SeqRange(ScanPaths)
        /\ StatExists(req[Main].arg) /\ ~StatIsDir(req[Main].arg) =>
              /\ ~ret[Main].success
              /\ ~IsNotExist(ret[Main].error)
              /\ ret[Main].error # Nil
              /\ req[Main].arg \notin SeqRange(ScanPaths)

\* C14, what the code does instead: for a path that is not a directory it
\* returns os.ErrNotExist, the error that says the path does not exist; the
\* list is left alone in both cases.
C14_FileReportedMissing ==
    AddReturned /\ ~StatIsDir(req[Main].arg) =>
        /\ ~ret[Main].success
        /\ IsNotExist(ret[Main].error)
        /\ ret[Main].error = IF StatExists(req[Main].arg) THEN ErrNotExist
                              ELSE ErrStat
        /\ req[Main].arg \notin SeqRange(ScanPaths)

\* C14 witness: AddScanPath("/r/a.nes"), the path of a regular file, has
\* returned "file does not exist".
C14_Witness ==
    /\ AddReturned
    /\ req[Main].arg = FileAnes
    /\ StatExists(FileAnes) /\ ~StatIsDir(FileAnes)
    /\ ret[Main].error = ErrNotExist

\* the records of games at the indices of idx, in increasing index order
SubsequenceAt(games, idx) ==
    LET Kth(k) == CHOOSE i \in idx : Cardinality({j \in idx : j < i}) = k - 1
    IN [k \in 1..Cardinality(idx) |-> games[Kth(k)]]

\* the step that runs the body of a read operation of the given type
ReadStep(t, type) ==
    /\ pc[t] = "read_body" /\ req[t].type = type
    /\ pc'[t] \in {"send", "returned"}

\* C16: GetFavorites returns exactly the records whose Favorite flag is
\* true at the time of the call, each once, in the order of the store; the
\* get_favorites request is answered with them and the store is unchanged.
C16_GetFavorites ==
    [][\A c \in Conns :
          ReadStep(c, MsgTypeGetFavorites) =>
             /\ ret'[c].data.games =
                   SubsequenceAt(Games, {i \in 1..Len(Games) : Games[i].Favorite})
             /\ ret'[c].success /\ ret'[c].type = MsgTypeSuccess
             /\ ret'[c].id = req[c].id
             /\ UNCHANGED libVars]_vars

\* C16 witness: after ToggleFavorite("AZ") made the first record a
\* favorite, GetFavorites has returned both records, "AZ" before "MX".
C16_Witness ==
    \E c \in Conns :
        /\ pc[c] = "send" /\ req[c].type = MsgTypeGetFavorites
        /\ ~OldGames[1].Favorite
        /\ Len(ret[c].data.games) = 2
        /\ ret[c].data.games[1].ID = IdAZ /\ ret[c].data.games[1].Favorite
        /\ ret[c].data.games[2].ID = IdMX
        /\ ret[c].data.games = Games

\* the record passes the filters of the request: every non-empty filter
\* equals the record's field
Matches(g, r) ==
    /\ r.platform # "" => g.Platform = r.platform
    /\ r.category # "" => g.Category = r.category

\* C15: GetGames(platform, category) returns the full record sequence when
\* both filters are empty, and otherwise exactly the records that match
\* every non-empty filter, each once, in the order of the store; the
\* list_games request is answered with them and the store is unchanged.
C15_GetGamesFilters ==
    [][\A c \in Conns :
          ReadStep(c, MsgTypeListGames) =>
             /\ ret'[c].data.games =
                   SubsequenceAt(Games, {i \in 1..Len(Games) :
                                            Matches(Games[i], req[c])})
             /\ req[c].platform = "" /\ req[c].category = ""
                   => ret'[c].data.games = Games
             /\ ret'[c].success /\ ret'[c].id = req[c].id
             /\ UNCHANGED libVars]_vars

\* C15 witness: of three records, "GBA", "NES", "GBA", the platform filter
\* "GBA" has returned the first and the third, in that order.
C15_Witness ==
    \E c \in Conns :
        /\ pc[c] = "send" /\ req[c].type = MsgTypeListGames
        /\ req[c].platform = "GBA" /\ req[c].category = ""
        /\ Games = PlayedGames
        /\ ret[c].data.games = <<PlayedGames[1], PlayedGames[3]>>

\* the permutations of 1..n
Perms(n) ==
    {f \in [1..n -> 1..n] : \A i, j \in 1..n : i # j => f[i] # f[j]}

\* C17: GetRecentlyPlayed(limit) returns a copy of the records sorted by
\* LastPlayed, latest first: a permutation of the store's records in
\* descending order, cut to its first limit entries when 0 < limit < total
\* and complete otherwise; the store and its order are unchanged.
C17_GetRecentlyPlayed ==
    [][ReadStep(Main, MsgTypeGetRecent) =>
          LET out == ret'[Main].data.games
              n == Len(Games)
              limit == req[Main].limit
          IN /\ Len(out) = IF limit > 0 /\ limit < n THEN limit ELSE n
             /\ limit > 0 => Len(out) = IF limit < n THEN limit ELSE n
             /\ \E f \in Perms(n) :
                   /\ \A i, j \in 1..n :
                         i < j => Games[f[i]].LastPlayed >= Games[f[j]].LastPlayed
                   /\ out = [k \in 1..Len(out) |-> Games[f[k]]]
             /\ ret'[Main].data.alias = 0
             /\ UNCHANGED libVars]_vars

\* C17 witness: of three records played at times 1, 2, 3 (in store
\* order), GetRecentlyPlayed(2) has returned the third and the second.
C17_Witness ==
    /\ pc[Main] = "returned" /\ req[Main].type = MsgTypeGetRecent
    /\ req[Main].limit = 2
    /\ Games = PlayedGames
    /\ ret[Main].data.games = <<PlayedGames[3], PlayedGames[2]>>

\* the step from a process whose Save at shutdown returned nil to the next
\* process, whose NewLibrary has loaded the file
SaveThenLoad ==
    /\ pc[Main] = "exited"
    /\ ret[Main].type = "save" /\ ret[Main].success
    /\ pc'[Main] = "loaded"

\* every string of the store is valid UTF-8
ValidStrings ==
    /\ \A i \in 1..Len(ScanPaths) : JSONString[ScanPaths[i]] = ScanPaths[i]
    /\ \A i \in 1..Len(Games) : MarshalGame(Games[i]) = Games[i]

\* C18: Save followed by Load from the same path gives an equal store:
\* the same records with all fields, scan paths, category and platform
\* counts and last-scan timestamp.
C18_SaveLoadRoundTrip ==
    [][SaveThenLoad =>
          /\ Games' = Games
          /\ ScanPaths' = ScanPaths
          /\ Categories' = Categories
          /\ Platforms' = Platforms
          /\ LastScan' = LastScan]_vars

\* C18, what the code does instead: the round trip gives an equal store
\* when every string of the store is valid UTF-8.
C18_RoundTripValidUTF8 ==
    [][SaveThenLoad /\ ValidStrings => libVars' = libVars]_vars

\* C18 witness: the directory "/\xff" was added, the store saved without
\* error, and the next process has loaded the scan path "/\ufffd".
C18_Witness ==
    /\ pc[Main] = "loaded"
    /\ disk.exists /\ disk.valid
    /\ Len(ScanPaths) >= 1
    /\ ScanPaths[Len(ScanPaths)] = <<47>> \o ReplacementChar
    /\ ~StatExists(ScanPaths[Len(ScanPaths)])

\* Load has returned inside NewLibrary
LoadReturned == pc[Main] = "loaded" /\ req[Main].type = "load"

\* C19: when the snapshot file is missing, Load returns no error and the
\* store starts empty: no records, no scan paths, empty count mappings.
\* When the file is there and does not parse, Load returns the decode
\* error.
C19_LoadMissingOrTorn ==
    LoadReturned =>
        /\ ~disk.exists =>
              /\ ret[Main].success /\ ret[Main].error = Nil
              /\ Games = <<>> /\ ScanPaths = <<>>
              /\ Categories = EmptyMap /\ Platforms = EmptyMap
        /\ disk.exists /\ ~disk.valid =>
              /\ ~ret[Main].success
              /\ ret[Main].error = ErrDecode

\* C19 witness: the Save of a process failed half way, and the next
\* process has got the decode error from Load and starts empty.
C19_Witness ==
    /\ LoadReturned
    /\ disk = DiskTorn
    /\ nops >= 1
    /\ ret[Main].error = ErrDecode
    /\ Games = <<>>

\* The hash of the claim, h = sum of c[i] * 31^(n-i) modulo 2^32, worked
\* out term by term on numbers of four 8-bit digits, lowest first.
Times31[x \in Seq(Nat)] ==
    LET a1 == x[1] * 31
        a2 == x[2] * 31 + a1 \div 256
        a3 == x[3] * 31 + a2 \div 256
        a4 == x[4] * 31 + a3 \div 256
    IN <<a1 % 256, a2 % 256, a3 % 256, a4 % 256>>

Plus32[x \in Seq(Nat), y \in Seq(Nat)] ==
    LET a1 == x[1] + y[1]
        a2 == x[2] + y[2] + a1 \div 256
        a3 == x[3] + y[3] + a2 \div 256
        a4 == x[4] + y[4] + a3 \div 256
    IN <<a1 % 256, a2 % 256, a3 % 256, a4 % 256>>

\* c * 31^k modulo 2^32
Term[c \in Nat, k \in Nat] ==
    IF k = 0 THEN <<c % 256, c \div 256, 0, 0>> ELSE Times31[Term[c, k - 1]]

PolyHash[path \in Str] ==
    IF path = <<>> THEN <<0, 0, 0, 0>>
    ELSE Plus32[Term[Head(path), Len(path) - 1], PolyHash[Tail(path)]]

\* x modulo 26
Mod26(x) ==
    ((((((x[4] % 26) * 256 + x[3]) % 26) * 256 + x[2]) % 26) * 256 + x[1]) % 26

\* the filename: what follows the last separator
FileName(path) ==
    LET seps == {i \in 1..Len(path) : IsSep(path[i])}
    IN SubSeq(path, IF seps = {} THEN 1
                    ELSE 1 + CHOOSE i \in seps : \A j \in seps : j <= i,
              Len(path))

\* the filename without its extension: what precedes its last dot
Stem(path) ==
    LET name == FileName(path)
        dots == {i \in 1..Len(name) : IsDot(name[i])}
    IN IF dots = {} THEN name
       ELSE SubSeq(name, 1, (CHOOSE i \in dots : \A j \in dots : j <= i) - 1)

\* the ID of the claim
IDOf(path) ==
    LET stem == Stem(path)
        len == IF Len(stem) < 8 THEN Len(stem) ELSE 8
    IN [i \in 1..len |-> IF stem[i] \in 97..122 THEN stem[i] - 32 ELSE stem[i]]
          \o <<65 + Mod26(PolyHash[path])>>

\* generateID has returned to the main goroutine
IDReturned == pc[Main] = "returned" /\ req[Main].type = "generate_id"

\* C20: generateID(path) is the filename without extension, upper-cased
\* and cut to at most 8 characters, followed by the letter 'A' + (h mod
\* 26), h being the polynomial hash of the whole path in 32-bit unsigned
\* arithmetic; the result ends in one of 'A'..'Z' and depends on the path
\* only.
C20_GenerateID ==
    IDReturned =>
        LET id == ret[Main].data.games[1]
        IN /\ id = IDOf(req[Main].arg)
           /\ Len(id) >= 1 /\ Len(id) <= 9
           /\ id[Len(id)] \in 65..90
           /\ id = GenerateID(req[Main].arg)

\* C20 witness: generateID("/r/s/SuperMarioBros.NES") has returned
\* "SUPERMARZ": the hash wraps modulo 2^32 to 2207343059, which is 25
\* modulo 26.
C20_Witness ==
    /\ IDReturned
    /\ req[Main].arg = <<47,114,47,115,47>>
            \o <<83,117,112,101,114,77,97,114,105,111,66,114,111,115>>
            \o <<46,78,69,83>>
    /\ ret[Main].data.games[1] = <<83,85,80,69,82,77,65,82,90>>

\* the stem of the file name, cut to 8 characters and upper-cased
UpperStem(path) ==
    LET stem == Stem(path)
        len == IF Len(stem) < 8 THEN Len(stem) ELSE 8
    IN [i \in 1..len |-> IF stem[i] \in 97..122 THEN stem[i] - 32 ELSE stem[i]]

\* per path: the truncated upper-case stem, the 32-bit hash modulo 26, and
\* the ID generateID gives it
UpperStemOf == [p \in IDPaths |-> UpperStem(p)]
HashLetterOf == [p \in IDPaths |-> Mod26(PolyHash[p])]
GeneratedID == [p \in IDPaths |-> GenerateID(p)]

\* the paths other than p whose truncated upper-case stem is that of p
SameStem(p) == {q \in IDPaths \ {p} : UpperStemOf[q] = UpperStemOf[p]}

\* C21: two different paths with equal truncated upper-case basenames get
\* the same ID from generateID when their 32-bit path hashes agree modulo
\* 26, and different IDs when the hashes differ modulo 26.
C21_CollisionPreserved ==
    IDReturned =>
        \A q \in SameStem(req[Main].arg) :
            (GeneratedID[q] = ret[Main].data.games[1])
                <=> (HashLetterOf[q] = HashLetterOf[req[Main].arg])

\* C21 witness: generateID has returned the ID of a path that shares it
\* with another path of the same stem, while a third path of that stem has
\* another ID.
C21_Witness ==
    /\ IDReturned
    /\ \E q \in SameStem(req[Main].arg) :
          GeneratedID[q] = ret[Main].data.games[1]
    /\ \E q \in SameStem(req[Main].arg) :
          GeneratedID[q] # ret[Main].data.games[1]

\* The cleaning steps of the claim, each worked out on positions.
\* the name up to its last dot
WithoutExtension(name) ==
    LET dots == {i \in 1..Len(name) : name[i] = 46}
    IN IF dots = {} THEN name
       ELSE SubSeq(name, 1, (CHOOSE i \in dots : \A j \in dots : j <= i) - 1)

\* '_' and '-' turned into spaces
Spaced(s) == [i \in 1..Len(s) |-> IF s[i] \in {95, 45} THEN 32 ELSE s[i]]

\* the positions where pat occurs in s
OccursAt(s, pat) ==
    {i \in 1..Len(s) : i + Len(pat) - 1 <= Len(s)
                         /\ \A k \in 1..Len(pat) : s[i + k - 1] = pat[k]}

\* one pass over s from the left: the occurrences of pat that do not
\* overlap an occurrence taken before them
RECURSIVE TakenFrom(_, _, _)
TakenFrom(occ, n, from) ==
    LET rest == {i \in occ : i >= from}
    IN IF rest = {} THEN {}
       ELSE LET i == CHOOSE x \in rest : \A y \in rest : x <= y
            IN {i} \cup TakenFrom(occ, n, i + n)

\* s without the occurrences of pat one pass takes
Without(s, pat) ==
    LET taken == TakenFrom(OccursAt(s, pat), Len(pat), 1)
        kept == {i \in 1..Len(s) :
                    \A t \in taken : i < t \/ i >= t + Len(pat)}
        Pick[k \in 0..Len(s)] ==
            IF k = 0 THEN <<>>
            ELSE IF k \in kept THEN Append(Pick[k - 1], s[k]) ELSE Pick[k - 1]
    IN Pick[Len(s)]

\* s from its first to its last character that is not white space
Trimmed(s) ==
    LET solid == {i \in 1..Len(s) : s[i] \notin {9, 10, 11, 12, 13, 32}}
    IN IF solid = {} THEN <<>>
       ELSE SubSeq(s, CHOOSE i \in solid : \A j \in solid : i <= j,
                      CHOOSE i \in solid : \A j \in solid : j <= i)

\* the title of the claim, the three removals made one after the other
TitleOf(name) ==
    Trimmed(Without(Without(Without(Spaced(WithoutExtension(name)),
                                    TitlePatterns[1]),
                            TitlePatterns[2]),
                    TitlePatterns[3]))

\* none of "(USA)", "(Europe)", "(Japan)" occurs in s
FreeOfPatterns(s) ==
    \A k \in 1..Len(TitlePatterns) : OccursAt(s, TitlePatterns[k]) = {}

\* no '(' of s follows another '(' without a ')' between them
Flat(s) ==
    \A i, j \in 1..Len(s) :
        (i < j /\ s[i] = 40 /\ s[j] = 40)
            => \E k \in i + 1..j - 1 : s[k] = 41

\* cleanGameTitle has returned to the main goroutine
TitleReturned == pc[Main] = "returned" /\ req[Main].type = "clean_title"

\* C22: cleanGameTitle(filename) is the filename with its extension
\* stripped, '_' and '-' replaced by spaces, "(USA)", "(Europe)" and
\* "(Japan)" removed wherever they occur, so that the returned title
\* contains none of the three, and leading and trailing white space
\* trimmed.
C22_CleanGameTitle ==
    TitleReturned =>
        /\ ret[Main].data.games[1] = TitleOf(req[Main].arg)
        /\ FreeOfPatterns(ret[Main].data.games[1])

\* C22, as far as it holds: the returned title is the filename without its
\* extension, with '_' and '-' replaced by spaces, after one left-to-right
\* removal pass for each of "(USA)", "(Europe)", "(Japan)" in this order,
\* trimmed; it contains none of the three when no '(' of the filename
\* follows another '(' without a ')' between them.
C22_CleanGameTitleOnePass ==
    TitleReturned =>
        /\ ret[Main].data.games[1] = TitleOf(req[Main].arg)
        /\ Flat(req[Main].arg) => FreeOfPatterns(ret[Main].data.games[1])

\* C22 witness: cleanGameTitle("Super_Mario-Bros (USA).nes") has returned
\* "Super Mario Bros".
C22_Witness ==
    /\ TitleReturned
    /\ req[Main].arg = <<83,117,112,101,114,95,77,97,114,105,111,45,66,114,
                         111,115,32,40,85,83,65,41,46,110,101,115>>
    /\ ret[Main].data.games[1] = <<83,117,112,101,114,32,77,97,114,105,111,
                                   32,66,114,111,115>>

\* the worker of c is inside the handler with a request of a type the
\* router has no case for
Unrouted(c) ==
    /\ pc[c] = "handle"
    /\ req[c].type \notin {"list_games", "get_game", "get_favorites",
                            "toggle_favorite", "scan", "status"}

\* the handler returns to the worker of c (the process does not end)
HandlerReturns(c) == pc'[c] = "send" /\ pc[c] # "send"

\* C23: a request whose type is none of list_games, get_game,
\* get_favorites, toggle_favorite, scan and status is answered, without
\* waiting for anything, with type "error", success=false, the error
\* "Unknown message type" and the id of the request; the store, the lock
\* and the file stay as they are.
C23_UnknownType ==
    /\ [](\A c \in Conns : Unrouted(c) => ENABLED HandleUnknown(c))
    /\ [][\A c \in Conns :
            (Unrouted(c) /\ HandlerReturns(c)) =>
                /\ ret'[c] = [type |-> "error", id |-> req[c].id,
                              success |-> FALSE, data |-> DataNone,
                              error |-> "Unknown message type"]
                /\ UNCHANGED <<libVars, muVars, disk>>]_vars

\* C23 witness: the request {"type":"launch_game","id":"r8"} has been
\* answered with the error response carrying "r8".
C23_Witness ==
    \E c \in Conns :
        /\ pc[c] = "send"
        /\ req[c].type = "launch_game"
        /\ req[c].id = "r8"
        /\ ret[c].type = "error"
        /\ ret[c].id = "r8"
        /\ ret[c].error = "Unknown message type"
        /\ Len(Games) = 3

\* the records of the store that have the ID
WithID(id) == {i \in 1..Len(Games) : Games[i].ID = id}

\* C25: get_game is answered with type "error", success=false, the error
\* "Game not found" and the id of the request when no record has the ID,
\* and with success=true and the first record in sequence order that has
\* the ID when there is one; the store stays as it is.
C25_GetGame ==
    [][\A c \in Conns :
         (pc[c] = "read_body" /\ req[c].type = "get_game"
            /\ HandlerReturns(c)) =>
             /\ UNCHANGED <<libVars, disk>>
             /\ ret'[c].id = req[c].id
             /\ IF WithID(req[c].arg) = {}
                THEN ret'[c] = [type |-> "error", id |-> req[c].id,
                                success |-> FALSE, data |-> DataNone,
                                error |-> "Game not found"]
                ELSE /\ ret'[c].success
                     /\ ret'[c].error = ""
                     /\ \E i \in WithID(req[c].arg) :
                           /\ \A j \in WithID(req[c].arg) : i <= j
                           /\ ret'[c].data.games = <<Games[i]>>]_vars

\* C25 witness: two records have the ID "AZ", and get_game "AZ" has been
\* answered with the first of them.
C25_Witness ==
    \E c \in Conns :
        /\ pc[c] = "send"
        /\ req[c].type = "get_game"
        /\ Cardinality(WithID(req[c].arg)) = 2
        /\ ret[c].success
        /\ ret[c].data.games = <<Games[1]>>
        /\ Games[1].Path # Games[2].Path

\* the worker of c is inside the handler with a status request
StatusAsked(c) == pc[c] = "handle" /\ req[c].type = "status"

\* C24: a status request is answered with type "status", success=true,
\* the data {status: "ready", version: "1.0.0"} and the id of the request,
\* in every state of the store; the handler takes no lock for it, so it
\* can return while another goroutine holds the store lock.
C24_Status ==
    /\ [](\A c \in Conns : StatusAsked(c) => ENABLED HandleStatus(c))
    /\ [][\A c \in Conns :
            (StatusAsked(c) /\ HandlerReturns(c)) =>
                /\ ret'[c] = [type |-> "status", id |-> req[c].id,
                              success |-> TRUE,
                              data |-> [kind |-> "status", games |-> <<>>,
                                        n |-> 0, alias |-> 0, enc |-> 0,
                                        status |-> "ready",
                                        version |-> "1.0.0"],
                              error |-> ""]
                /\ UNCHANGED <<libVars, muVars, disk>>]_vars

\* C24 witness: a status request has its response while the worker of the
\* other connection holds the store lock inside Scan.
C24_Witness ==
    \E c, d \in Conns :
        /\ pc[c] = "send"
        /\ req[c].type = "status"
        /\ ret[c].type = "status"
        /\ ret[c].data.version = "1.0.0"
        /\ muWriter = d
        /\ InScan(d)

\* the non-blank lines read from the connection, in order
NonBlank(c) == SelectSeq(rlog[c], LAMBDA l : l.kind # "blank")

\* the response sendError writes for a line that does not parse
IsParseError(resp) ==
    resp.type = "error" /\ resp.id = "" /\ ~resp.success /\ resp.data = DataNone

\* the response to a status request with the given id
StatusResponse(id) ==
    [type |-> "status", id |-> id, success |-> TRUE,
     data |-> [kind |-> "status", games |-> <<>>, n |-> 0, alias |-> 0, enc |-> 0,
               status |-> "ready", version |-> "1.0.0"],
     error |-> ""]

\* the worker of c reads a line that does not parse
ReadsMalformed(c) ==
    /\ Len(rlog'[c]) = Len(rlog[c]) + 1
    /\ rlog'[c][Len(rlog'[c])].kind = "malformed"

\* a write on the connection of c succeeds
Delivers(c) == connOpen[c] /\ peer[c] = "connected"

\* the worker of c is about to write the response to such a line
ParseErrorPending(c) == pc[c] = "send" /\ req[c] = NoRequest

\* C26: a line that does not parse as a request gets one error response
\* (type "error", empty id, success=false), is not passed to the request
\* handler, and leaves the connection open and registered; the worker goes
\* back to its loop, and a status request read later on the connection
\* gets the normal status response.
C26_MalformedLine ==
    /\ [](\A c \in Conns :
            /\ pc[c] = "handle" => NonBlank(c)[Len(NonBlank(c))].kind = "request"
            /\ \A k \in 1..Len(wlog[c]) :
                  /\ NonBlank(c)[k].kind = "malformed" => IsParseError(wlog[c][k])
                  /\ (NonBlank(c)[k].kind = "request"
                        /\ NonBlank(c)[k].type = "status")
                       => wlog[c][k] = StatusResponse(NonBlank(c)[k].id))
    /\ [][\A c \in Conns :
            /\ ReadsMalformed(c) =>
                  /\ pc'[c] = "send"
                  /\ IsParseError(ret'[c])
                  /\ wlog'[c] = wlog[c]
                  /\ connOpen'[c] = connOpen[c]
                  /\ clients' = clients
            /\ (ParseErrorPending(c) /\ pc'[c] # "send") =>
                  /\ pc'[c] = "loop"
                  /\ connOpen'[c] = connOpen[c]
                  /\ clients' = clients
                  /\ wlog'[c] \in {wlog[c], Append(wlog[c], ret[c])}
                  /\ Delivers(c) => wlog'[c] = Append(wlog[c], ret[c])]_vars

\* C26 witness: a connection on which a line that does not parse and then
\* the status request "s1" were read, and the error response and then the
\* status response were written.
C26_Witness ==
    \E c \in Conns :
        /\ Len(NonBlank(c)) = 2
        /\ NonBlank(c)[1].kind = "malformed"
        /\ NonBlank(c)[2].type = "status"
        /\ Len(wlog[c]) = 2
        /\ IsParseError(wlog[c][1])
        /\ wlog[c][2] = StatusResponse("s1")
        /\ connOpen[c]

\* The lifecycle state of the server, read off its fields: running, and
\* whether the listener is bound.
Phase ==
    IF running THEN "Running"
    ELSE IF ~listener.open THEN "Stopped"
    ELSE IF pc[Main] = "starting" THEN "Starting"
    ELSE "Stopping"

LifecycleEdges ==
    {<<"Stopped", "Starting">>, <<"Starting", "Running">>,
     <<"Running", "Stopping">>, <<"Stopping", "Stopped">>}

\* Accept returns a connection; a connection enters the registry
Accepts == \E c \in Conns : peer[c] = "new" /\ peer'[c] = "connected"
Registers == \E c \in Conns : c \in clients' /\ c \notin clients

\* the lifecycle as far as the running flag and the listener go
LifecycleSteps ==
    /\ Phase' # Phase => <<Phase, Phase'>> \in LifecycleEdges
    /\ (~running /\ running') => (pc[Main] = "starting" /\ listener.open)
    /\ (running /\ ~running') => (pc[Main] = "srv" /\ pc'[Main] = "stop_lock")

\* C27: the server goes through Stopped -> Starting -> Running -> Stopping
\* -> Stopped only; it is not running before Start, becomes running only
\* through a Start that bound the listener, stops being running only
\* through Stop, and connections are accepted and registered only while
\* it is Running, whatever the sequence of Start and Stop calls.
C27_Lifecycle ==
    /\ [](ncalls = 0 => Phase = "Stopped")
    /\ [][/\ LifecycleSteps
          /\ Accepts => Phase = "Running"
          /\ Registers => Phase = "Running"]_vars

\* C27, as far as it holds: the transitions, and the conditions under which
\* running changes, are those of the claim; a connection is accepted only
\* while the listener is bound, that is in any phase but Stopped.
C27_LifecycleOfRunning ==
    /\ [](ncalls = 0 => Phase = "Stopped")
    /\ [][/\ LifecycleSteps
          /\ Accepts => listener.open /\ Phase # "Stopped"]_vars

\* C27 witness: Start, Stop and Start again have been called; the server is
\* Running with its second accept loop, and a connection is registered.
C27_Witness ==
    /\ ncalls = 3
    /\ Phase = "Running"
    /\ pc[Main] = "srv"
    /\ apc["a2"] # "none"
    /\ clients # {}

\* the accept loop has registered the connection and released s.mu, and has
\* not yet started the worker of the connection
WorkerPending(c) ==
    /\ pc[c] = "none"
    /\ \E a \in Acceptors : apc[a] = "spawn" /\ aconn[a] = c

\* Stop was the last call of the main goroutine and it has returned
StopReturned == pc[Main] = "srv" /\ ret[Main].type = "stop"

\* C28: once Stop has returned, the listener is closed, the server is not
\* running and the registry is empty (ClientCount() = 0), and it stays so
\* until a later Start.
C28_StopClearsRegistry ==
    StopReturned =>
        /\ ~running
        /\ ~listener.open
        /\ clients = {}

\* C28, as far as it holds: Stop closes every connection of the registry
\* and leaves the registry empty when it releases s.mu; once it has
\* returned the server is not running and the listener is closed, and a
\* connection found in the registry was put there by an accept loop after
\* Stop had emptied it: its worker is not started yet, or it serves no
\* request and is on its way to remove it.
C28_StopClosesTracked ==
    /\ [](StopReturned =>
            /\ ~running
            /\ ~listener.open
            /\ \A c \in clients :
                  /\ \/ WorkerPending(c)
                     \/ pc[c] \in {"loop", "td_close", "td_lock", "td_delete"}
                  /\ rlog[c] = <<>>)
    /\ [][(pc[Main] = "stop_clear" /\ pc'[Main] # "stop_clear") =>
             /\ clients' = {}
             /\ \A c \in clients : ~connOpen'[c]]_vars

\* C28 witness: Stop has returned after closing a connection whose worker
\* was waiting for a line; the registry is empty.
C28_Witness ==
    /\ StopReturned
    /\ clients = {}
    /\ \E c \in Conns : pc[c] = "read" /\ ~connOpen[c] /\ peer[c] = "connected"

\* C29: on each connection the k-th line written answers the k-th
\* non-blank line read: it carries the id of that request when the line
\* parsed, and is the parse error otherwise; blank lines get no response;
\* and the worker reads a line only when every non-blank line read before
\* has had its response written.
C29_ResponsePairing ==
    /\ [](\A c \in Conns :
            /\ Len(wlog[c]) <= Len(NonBlank(c))
            /\ Len(NonBlank(c)) <= Len(wlog[c]) + 1
            /\ \A k \in 1..Len(wlog[c]) :
                  IF NonBlank(c)[k].kind = "malformed"
                  THEN IsParseError(wlog[c][k])
                  ELSE /\ wlog[c][k].id = NonBlank(c)[k].id
                       /\ wlog[c][k].type = "status"
                            <=> NonBlank(c)[k].type = "status")
    /\ [][\A c \in Conns :
            /\ rlog'[c] # rlog[c] => Len(wlog[c]) = Len(NonBlank(c))
            /\ Len(NonBlank(c)') = Len(NonBlank(c)) => wlog'[c] = wlog[c]
                  \/ Len(wlog[c]) < Len(NonBlank(c))]_vars

\* a write on the connection of c has failed, or will: the server has
\* closed the connection, or the client's end has refused a line
WriteFails(c) == ~connOpen[c] \/ peer[c] = "reset"

\* C29, as far as it holds: on each connection the k-th line written
\* answers the k-th non-blank line read, blank lines get no response, and
\* the worker reads a line only when sendResponse has returned for every
\* non-blank line read before; the response to an earlier line is missing
\* only when its write failed, and then nothing more is written.
C29_PairingUnlessWriteFails ==
    /\ [](\A c \in Conns :
            /\ Len(wlog[c]) <= Len(NonBlank(c))
            /\ Len(NonBlank(c)) <= Len(wlog[c]) + 1 \/ WriteFails(c)
            /\ \A k \in 1..Len(wlog[c]) :
                  IF NonBlank(c)[k].kind = "malformed"
                  THEN IsParseError(wlog[c][k])
                  ELSE /\ wlog[c][k].id = NonBlank(c)[k].id
                       /\ wlog[c][k].type = "status"
                            <=> NonBlank(c)[k].type = "status")
    /\ [][\A c \in Conns :
            /\ rlog'[c] # rlog[c] =>
                  /\ pc[c] = "read" /\ ret[c] = NoResponse
                  /\ Len(wlog[c]) = Len(NonBlank(c)) \/ WriteFails(c)
            /\ (WriteFails(c) /\ Len(wlog[c]) < Len(NonBlank(c))
                  /\ pc[c] # "send") => wlog'[c] = wlog[c]
            /\ Len(NonBlank(c)') = Len(NonBlank(c)) => wlog'[c] = wlog[c]
                  \/ Len(wlog[c]) < Len(NonBlank(c))]_vars

\* C29 witness: three lines were read from a connection, one of them
\* blank, and the two responses were written.
C29_Witness ==
    \E c \in Conns :
        /\ Len(rlog[c]) = 3
        /\ Len(NonBlank(c)) = 2
        /\ rlog[c][2].kind = "blank"
        /\ NonBlank(c)[1].id # NonBlank(c)[2].id
        /\ Len(wlog[c]) = 2

\* the main goroutine is inside Stop
InStop == pc[Main] \in {"stop_lock", "stop_clear", "stop_listener"}

\* C30: Stop always returns, whatever the workers are doing: the only lock
\* it takes is s.mu, and a goroutine holding s.mu is inside the few
\* statements between Lock and Unlock, never in a handler or in I/O.
C30_StopTerminates ==
    /\ [](\A c \in Conns : smu = c => pc[c] = "td_delete")
    /\ [](\A a \in Acceptors : smu = a => apc[a] = "reg_body")
    /\ InStop ~> ~InStop

\* C30 witness: Stop has returned while a worker is inside the handler,
\* blocked in Scan on the store lock.
C30_Witness ==
    /\ StopReturned
    /\ \E c \in Conns :
          /\ pc[c] = "save_lock"
          /\ muWriter = c
          /\ req[c].type = "scan"

\* the worker of the connection has been started and has not returned
WorkerAlive(c) == pc[c] \notin {"none", "closed"}

\* the connection was closed, by the server or by the client
WasClosed(c) ==
    peer[c] # "new" /\ (~connOpen[c] \/ peer[c] \in {"gone", "reset"})

\* a Scan is in its call of Save while holding lib.mu: the lock is never
\* released
StoreLockLost == \E d \in Conns : pc[d] = "save_lock" /\ muWriter = d

\* the worker is inside the request handler, waiting for lib.mu
AwaitsStore(c) == pc[c] \in {"handle", "save_lock"}

\* the registry holds accepted connections whose worker has not finished
\* (it runs, or the accept loop is about to start it), and a worker that
\* returned left its connection closed and unregistered
RegistryTracksWorkers ==
    /\ \A c \in clients :
          peer[c] # "new" /\ (WorkerAlive(c) \/ WorkerPending(c))
    /\ \A c \in Conns : pc[c] = "closed" => ~connOpen[c] /\ c \notin clients

\* C31: a worker that terminates leaves its connection closed and removed
\* from the registry; every worker whose connection was closed eventually
\* terminates; and every connection in the registry was accepted and its
\* worker has not finished teardown.
C31_Teardown ==
    /\ []RegistryTracksWorkers
    /\ \A c \in Conns : (WorkerAlive(c) /\ WasClosed(c)) ~> pc[c] = "closed"

\* C31, as far as it holds: the same, except that a worker whose request
\* waits for the store lock that a Scan never releases does not terminate.
C31_TeardownUnlessStoreLockLost ==
    /\ []RegistryTracksWorkers
    /\ \A c \in Conns :
          (WorkerAlive(c) /\ WasClosed(c))
             ~> (pc[c] = "closed" \/ (StoreLockLost /\ AwaitsStore(c)))

\* C31 witness: a worker has terminated after the client closed the
\* connection, another after Stop closed it; the registry is empty.
C31_Witness ==
    /\ pc["c1"] = "closed" /\ peer["c1"] = "gone"
    /\ pc["c2"] = "closed" /\ peer["c2"] = "connected"
    /\ ~connOpen["c1"] /\ ~connOpen["c2"]
    /\ clients = {}
    /\ StopReturned

\* ToggleFavorite returns the error of saveUnlocked after flipping a record
ToggleSaveFails(c) == ToggleStep(c) /\ ToggleHits(c) /\ ~ret'[c].success

\* ToggleFavorite flipped a record and the file does not hold the result
ToggleNotSaved(c) ==
    ToggleStep(c) /\ ToggleHits(c) /\ disk' # DiskFile(CurrentSnapshot')

\* what a toggle whose save failed must leave, whatever the file holds:
\* the error response for the request, the flag flipped, and the file as
\* one failed write leaves it (untouched or torn): no second write
ToggleFailureReported(c) ==
    LET i == CHOOSE k \in 1..Len(Games) :
                /\ Games[k].ID = req[c].arg
                /\ \A j \in 1..(k - 1) : Games[j].ID # req[c].arg
    IN /\ ret'[c] = Response(MsgTypeError, req[c].id, FALSE, DataNone, ErrWrite)
       /\ Games' = [Games EXCEPT ![i].Favorite = ~Games[i].Favorite]
       /\ disk' \in {disk, DiskTorn}

\* the worker writes the response it holds: the store and the file stay
ReportStep(c) == pc[c] = "send" /\ pc'[c] = "loop"

\* the snapshot file holds the store as it is in memory
StoreSaved == disk = DiskFile(CurrentSnapshot)

\* a save returns nil: Save, or the saveUnlocked of a ToggleFavorite that
\* found the record
SaveSucceeds ==
    \/ \E t \in Threads :
          pc[t] = "save_body" /\ pc'[t] = "save_ret" /\ ret'[t].success
    \/ \E c \in Conns : ToggleStep(c) /\ ToggleHits(c) /\ ret'[c].success

\* a ToggleFavorite whose save fails leaves the file untouched, and its
\* flip brings the store back to what the file holds
ToggleBackUnsaved ==
    \E c \in Conns : ToggleSaveFails(c) /\ disk' = disk /\ StoreSaved'

StartReturnsError ==
    pc[Main] = "srv" /\ pc'[Main] = "srv" /\ ncalls' = ncalls + 1
    /\ UNCHANGED handler

\* Start has bound the port
StartBinds == pc[Main] = "srv" /\ pc'[Main] = "starting"

\* Start returns nil
StartReturnsNil == pc[Main] = "starting" /\ pc'[Main] = "srv"

\* the accept loops the step starts
LoopsStarted == {a \in Acceptors : apc[a] = "none" /\ apc'[a] # "none"}

\* C33: a Start that cannot bind the listener returns an error and leaves
\* the running flag and the listener as they were, starting no accept
\* loop; a Start that succeeds returns after the listener is bound, with
\* the server running and exactly one accept loop started, which calls
\* Accept on that listener.
C33_Start ==
    /\ [][/\ listener.open /\ pc[Main] = "srv" => ~StartBinds
          /\ StartReturnsError =>
                /\ ret'[Main] = Response("start", "", FALSE, DataNone, ErrListen)
                /\ UNCHANGED <<running, listener, accVars, clients>>
          /\ StartBinds =>
                /\ listener'.open /\ listener'.id # listener.id
                /\ LoopsStarted = {}
          /\ StartReturnsNil =>
                /\ ret'[Main] = Response("start", "", TRUE, DataNone, "")
                /\ listener.open /\ listener' = listener
                /\ running'
                /\ Cardinality(LoopsStarted) = 1
                /\ \A a \in LoopsStarted : apc'[a] = "check"
                /\ \A a \in Acceptors \ LoopsStarted : apc'[a] = apc[a]
          /\ ~StartReturnsNil => LoopsStarted = {}
          /\ \A a \in Acceptors :
                /\ (apc[a] = "check" /\ apc'[a] # "check")
                      => apc'[a] = IF running THEN "listener" ELSE "done"
                /\ (apc[a] = "listener" /\ apc'[a] # "listener")
                      => apc'[a] = "accept" /\ alis'[a] = listener.id]_vars

\* C33 witness: a Start has failed while the server was running, which it
\* still is, with its listener bound and its one accept loop waiting in
\* Accept.
C33_Witness ==
    /\ pc[Main] = "srv"
    /\ ret[Main] = Response("start", "", FALSE, DataNone, ErrListen)
    /\ running /\ listener.open /\ listener.id = 1
    /\ apc = [a \in Acceptors |-> IF a = "a1" THEN "accept" ELSE "none"]
    /\ alis["a1"] = 1

\* the worker is in the installed handler, from its call to its return
InHandler(c) ==
    pc[c] \in {"handle", "read_body", "scan_reset", "scan_walk", "save_lock"}

\* the worker has read a line that parsed as a request
ReadsRequest(c) ==
    /\ Len(rlog'[c]) = Len(rlog[c]) + 1
    /\ rlog'[c][Len(rlog'[c])].kind = "request"

\* what defaultHandler answers to the request of the worker
ReadyResponse(c) ==
    [type |-> "status", id |-> req[c].id, success |-> TRUE,
     data |-> [kind |-> "status", games |-> <<>>, n |-> 0, alias |-> 0, enc |-> 0,
               status |-> "ready", version |-> ""],
     error |-> ""]

\* what the response serializes to: which array its data shares does not
\* show
Content(resp) == [resp EXCEPT !.data.alias = 0, !.data.enc = 0]

\* C34: a request that parsed is passed once to the installed handler,
\* and what the handler returned is what is written back; with no handler
\* installed every request that parsed, whatever its type, is answered by
\* the default handler: type "status", success, data {status: "ready"} and
\* the id of the request.
C34_Dispatch ==
    /\ [](\A c \in Conns :
            /\ InHandler(c) => handler # Nil
            /\ pc[c] = "default" => handler = Nil)
    /\ [][\A c \in Conns :
            /\ ReadsRequest(c) =>
                  /\ pc[c] = "read"
                  /\ pc'[c] = IF handler # Nil THEN "handle" ELSE "default"
                  /\ Line("request", req'[c]) = rlog'[c][Len(rlog'[c])]
            /\ (pc'[c] \in {"handle", "default"} /\ pc[c] # pc'[c])
                  => ReadsRequest(c)
            /\ (InHandler(c) \/ pc[c] = "default") => req'[c] = req[c]
            /\ (pc[c] = "default" /\ pc'[c] # "default") =>
                  /\ pc'[c] = "send"
                  /\ ret'[c] = ReadyResponse(c)
            /\ (InHandler(c) /\ ~InHandler(c)') =>
                  /\ pc'[c] = "send"
                  /\ ret'[c].id = req[c].id
            /\ (pc[c] = "send" /\ pc'[c] = "send")
                  => Content(ret'[c]) = Content(ret[c])
            /\ (pc[c] = "send" /\ pc'[c] # "send") =>
                  /\ pc'[c] = "loop"
                  /\ wlog'[c] \in {wlog[c], Append(wlog[c], ret[c])}
                  /\ Delivers(c) => wlog'[c] = Append(wlog[c], ret[c])
                  /\ ~connOpen[c] => wlog'[c] = wlog[c]]_vars

\* C34 witness: on a server without a handler a scan request and a
\* get_game request have been answered by the default handler.
C34_Witness ==
    \E c \in Conns :
        /\ handler = Nil
        /\ Len(rlog[c]) = 2
        /\ rlog[c][1] = [kind |-> "request", type |-> "scan", id |-> "x1"]
        /\ rlog[c][2] = [kind |-> "request", type |-> "get_game", id |-> "g1"]
        /\ Len(wlog[c]) = 2
        /\ \A k \in 1..2 :
              /\ wlog[c][k].type = "status" /\ wlog[c][k].success
              /\ wlog[c][k].data.status = "ready"
              /\ wlog[c][k].id = rlog[c][k].id
        /\ Games = SrvSnapshot.games

\* the positions of the records holding the platform, and the category
OfPlatform(p) == {i \in 1..Len(Games) : Games[i].Platform = p}
OfCategory(k) == {i \in 1..Len(Games) : Games[i].Category = k}

\* the sum of the counts of a mapping
RECURSIVE SumOver(_, _)
SumOver(m, keys) ==
    IF keys = {} THEN 0
    ELSE LET k == CHOOSE x \in keys : TRUE
         IN m[k] + SumOver(m, keys \ {k})

\* the count mappings agree with the records
CountsAgree ==
    /\ \A p \in DOMAIN Platforms :
          Platforms[p] = Cardinality(OfPlatform(p)) /\ Platforms[p] # 0
    /\ \A k \in DOMAIN Categories :
          Categories[k] = Cardinality(OfCategory(k)) /\ Categories[k] # 0
    /\ \A i \in 1..Len(Games) :
          /\ Games[i].Platform \in DOMAIN Platforms
          /\ Games[i].Category \in DOMAIN Categories
    /\ SumOver(Platforms, DOMAIN Platforms) = Len(Games)
    /\ SumOver(Categories, DOMAIN Categories) = Len(Games)

\* no Scan is between its Lock and the end of its walk
NoScanRebuilding == \A c \in Conns : pc[c] \notin {"scan_reset", "scan_walk"}

\* C36: after every Scan the Platforms and Categories mappings hold, for
\* each key, the number of records of that platform or category, no key
\* maps to 0 and both sum to the number of records; ToggleFavorite,
\* AddScanPath and the read operations, as every step that is not part of
\* a Scan, keep the agreement.
C36_CountsAgree ==
    /\ [](\A c \in Conns : ScanCommitted(c) => CountsAgree)
    /\ [][(CountsAgree /\ NoScanRebuilding) => CountsAgree']_vars

\* C36 witness: a Scan has found two GBA files and one NES file.
C36_Witness ==
    \E c \in Conns :
        /\ ScanCommitted(c)
        /\ Len(Games) = 3
        /\ Platforms = ("GBA" :> 2) @@ ("NES" :> 1)
        /\ Categories = (Uncategorized :> 3)

\* the worker holds the response to a list_games request without filters
\* or to a get_game request, and has not written it yet
HoldsRecords(c) ==
    /\ pc[c] = "send"
    /\ \/ /\ req[c].type = MsgTypeListGames
          /\ req[c].platform = "" /\ req[c].category = ""
       \/ req[c].type = MsgTypeGetGame

\* the read operation returns and handleRequest builds the response
ReadReturns(c) == pc[c] = "read_body" /\ pc'[c] = "send"

\* two record sequences that differ in Favorite flags at most
SameButFavorite(a, b) ==
    /\ Len(a) = Len(b)
    /\ \A k \in 1..Len(a) :
          [a[k] EXCEPT !.Favorite = FALSE] = [b[k] EXCEPT !.Favorite = FALSE]

\* C37: the records in the response to a list_games request without
\* filters or to a get_game request are those of the store while the read
\* held the shared lock, and nothing another connection does between the
\* return of the read and the write of the response alters them.
C37_ResponseSnapshot ==
    [][\A c \in Conns :
          /\ (ReadReturns(c) /\ HoldsRecords(c)' /\ ret'[c].success) =>
                ret'[c].data.games =
                   IF req[c].type = MsgTypeListGames THEN Games
                   ELSE <<Games[FirstIndex(Games, req[c].arg)]>>
          /\ (HoldsRecords(c) /\ HoldsRecords(c)') =>
                ret'[c].data.games = ret[c].data.games]_vars

\* C37, as far as it holds: the records are those of the store under the
\* shared lock; a Scan does not alter them; a ToggleFavorite of another
\* connection alters the Favorite flag of the record it toggles, and
\* nothing else.
C37_ResponseSnapshotButFavorite ==
    [][\A c \in Conns :
          /\ (ReadReturns(c) /\ HoldsRecords(c)' /\ ret'[c].success) =>
                ret'[c].data.games =
                   IF req[c].type = MsgTypeListGames THEN Games
                   ELSE <<Games[FirstIndex(Games, req[c].arg)]>>
          /\ (HoldsRecords(c) /\ HoldsRecords(c)') =>
                \/ ret'[c].data.games = ret[c].data.games
                \/ /\ \E d \in Conns \ {c} : ToggleStep(d) /\ ToggleHits(d)
                   /\ SameButFavorite(ret'[c].data.games, ret[c].data.games)
                   /\ \A k \in 1..Len(ret[c].data.games) :
                         ret'[c].data.games[k] # ret[c].data.games[k]
                            => \E d \in Conns \ {c} :
                                  ret[c].data.games[k].ID = req[d].arg]_vars

\* C37 witness: the worker holds the response to list_games with the two
\* records of the store, unwritten, while the Scan of the other connection
\* has replaced the store by three new records.
C37_Witness ==
    \E c \in Conns : \E d \in Conns \ {c} :
        /\ HoldsRecords(c)
        /\ req[c].type = MsgTypeListGames
        /\ Len(ret[c].data.games) = 2
        /\ ret[c].data.games[2].Favorite
        /\ ScanCommitted(d)
        /\ Len(Games) = 3

\* the worker of c passes a request to the handler
Dispatches(c) == pc[c] # "handle" /\ pc'[c] = "handle"

\* C38: once Stop has returned, and as long as Start is not called again,
\* no worker passes a request to the request handler, and the store is
\* not changed.
C38_NothingHandledAfterStop ==
    [][StopReturned =>
          /\ \A c \in Conns : ~Dispatches(c)
          /\ libVars' = libVars]_vars

\* the first half of C38 alone: no dispatch once Stop has returned
C38_NoDispatchAfterStop ==
    [][StopReturned => \A c \in Conns : ~Dispatches(c)]_vars

\* the second half of C38 alone: no change of the store once Stop has
\* returned
C38_NoMutationAfterStop == [][StopReturned => libVars' = libVars]_vars

\* C38, as far as it holds: a worker calls ReadString only after it has
\* found s.running true, so that once Stop has returned a worker passes
\* to the handler at most the one line it was already waiting for, and
\* the store is changed only by a handler that a request has entered.
C38_AtMostOneMoreRequest ==
    [][\A c \in Conns :
          /\ (pc[c] # "read" /\ pc'[c] = "read") => running
          /\ Dispatches(c) => pc[c] = "read"
          /\ (StopReturned /\ Dispatches(c)) => ~connOpen[c] \/ c \notin clients
          /\ (StopReturned /\ libVars' # libVars) =>
                \E d \in Conns : InHandler(d) /\ req[d].type = "scan"]_vars

\* C38 witness: Stop has returned and closed the connection of a worker
\* that waits in ReadString, after an earlier line, and may still be given
\* a line of its reader's buffer.
C38_Witness ==
    /\ StopReturned
    /\ \E c \in Conns :
          /\ pc[c] = "read" /\ ~connOpen[c] /\ MayBeBuffered(c)
          /\ \E r \in SrvRequests :
                r.type = MsgTypeScan /\ ENABLED ReadLineRequest(c, r)

\* main has received the shutdown signal, server.Stop() has returned, and
\* lib.Save() waits for the store lock
ShutdownSaving == pc[Main] = "save_lock"

\* lib.Save() has returned to main, which returns
ShutdownDone == pc[Main] \in {"save_ret", "exited"} /\ ret[Main].type = "save"

\* C39: the shutdown completes: once Stop has returned, the final Save
\* gets the store lock, writes the snapshot and returns, whatever requests
\* are in flight or were served.
C39_ShutdownCompletes == ShutdownSaving ~> ShutdownDone

\* C39, as far as it holds: the final Save returns unless a Scan sits in
\* its own call of Save with the store lock held; and when it returns
\* without error the file holds the state of the store.
C39_ShutdownCompletesUnlessScan ==
    /\ ShutdownSaving ~> (ShutdownDone \/ StoreLockLost)
    /\ [][(pc[Main] = "save_body" /\ pc'[Main] # "save_body") =>
             /\ ShutdownDone'
             /\ muWriter' # Main
             /\ ret'[Main].success => disk' = DiskFile(CurrentSnapshot)]_vars

\* C39 witness: the final Save has returned without error after a client
\* made a game a favorite, and the file holds the store.
C39_Witness ==
    /\ ShutdownDone
    /\ ret[Main].success
    /\ \E i \in 1..Len(Games) : Games[i].Favorite
    /\ disk = DiskFile(CurrentSnapshot)


====
